---------------------------- MODULE Spec2Model ----------------------------
(***************************************************************************)
(* Model of the flashrust auth service: the transaction runner             *)
(* (backend/database/src/traits.rs), the sign-up and sign-in handlers      *)
(* (backend/auth/src/handlers) and the credential / session repositories   *)
(* (backend/auth-database/src/entities), run by concurrent requests over   *)
(* one shared store.                                                       *)
(*                                                                         *)
(* The store is modelled as the production engine behaves at its default   *)
(* isolation level (READ COMMITTED): a statement sees the committed rows    *)
(* plus its own transaction's writes; an UPDATE waits for a row another    *)
(* open transaction has updated; an INSERT of an email another open        *)
(* transaction has inserted waits for that transaction to end.             *)
(***************************************************************************)
EXTENDS Integers, Sequences, FiniteSets, TLC

(***************************************************************************)
(* Bounds of the model.                                                    *)
(***************************************************************************)
MaxCreds == 2      \* credential rows the store may hold
MaxSess == 1       \* session rows the store may hold
MaxNow == 1        \* the clock reads a tick in 0..MaxNow
TicksPerMs == 2    \* clock ticks per millisecond (the clock is finer than the store)

(***************************************************************************)
(* Program constants.                                                      *)
(***************************************************************************)
MIN_LEN_PASSOWRD == 6
ONE_DAY_IN_SECONDS == 60 * 60 * 24
SESSION_KEY == "ssid"
MsPerSec == 1000
TicksPerSec == TicksPerMs * MsPerSec

Procs == {"r1", "r2"}

(***************************************************************************)
(* Request inputs.  Strings are tuples of one-character strings, so that   *)
(* the format checks are computed as the code computes them.               *)
(***************************************************************************)
EmailA == <<"a", "@", "b", ".", "c", "o">>
EmailB == <<"x", "@", "y", ".", "i", "o">>
EmailNoTld == <<"a", "@", "b", "1">>
Emails == {EmailA, EmailB, EmailNoTld}

PwA == <<"a", "b", "c", "d", "e", "f">>
PwB == <<"w", "r", "o", "n", "g", "!">>
PwShort == <<"a", "n", "a", "k", "3">>
Passwords == {PwA, PwB, PwShort}
SignUpPasswords == {PwA, PwShort}

Letters == {"a", "b", "c", "d", "e", "f", "g", "i", "k", "n", "o", "r", "w", "x", "y"}
Digits == {"1", "3"}
LocalChars == Letters \cup Digits \cup {".", "_", "%", "+", "-"}
DomainChars == Letters \cup Digits \cup {".", "-"}

\* ^[a-zA-Z0-9._%+-]+@[a-zA-Z0-9.-]+\.[a-zA-Z]{2,}$
is_valid_email(email) ==
    \E i \in 1..Len(email), j \in 1..Len(email) :
        /\ email[i] = "@"
        /\ email[j] = "."
        /\ i >= 2
        /\ \A k \in 1..(i - 1) : email[k] \in LocalChars
        /\ j >= i + 2
        /\ \A k \in (i + 1)..(j - 1) : email[k] \in DomainChars
        /\ Len(email) - j >= 2
        /\ \A k \in (j + 1)..Len(email) : email[k] \in Letters

is_valid_password(password) == Len(password) >= MIN_LEN_PASSOWRD

(***************************************************************************)
(* Password hashing.  A hash string is "$" ++ salt ++ digest; the digest   *)
(* of the memory-hard function is modelled symbolically by the pair it is  *)
(* computed from (the salt and the password bytes).                        *)
(***************************************************************************)
Salts == {"s1", "s2", "s3"}

\* a sign-up that stores the password as it came
hash_password_plain(password, salt) == password

\* argon2's PHC string: the salt, and the digest of password under that salt
hash_password(password, salt) == <<"$", salt>> \o password

ParsesAsHash(hash) == Len(hash) >= 2 /\ hash[1] = "$" /\ hash[2] \in Salts

\* Ok(true) / Ok(false) / Err(InternalServerError) when the hash does not parse
verify_password(password, hash) ==
    IF ~ParsesAsHash(hash) THEN "error"
    ELSE IF hash_password(password, hash[2]) = hash THEN "true" ELSE "false"


(***************************************************************************)
(* Errors.  A driver (sqlx) error is named by its variant; DriverText is   *)
(* its Display text.                                                       *)
(***************************************************************************)
BeginFaults == {"PoolTimedOut"}
QueryFaults == {"Database"}
CommitFaults == {"Io"}
NoFault == "none"

DriverText(e) == "driver: " \o e

MkErr(ty, t, msg) == [ty |-> ty, t |-> t, msg |-> msg]
NoErr == MkErr("", "", "")

\* impl From<SqlxError> for DatabaseError
DatabaseErrorFrom(e) ==
    CASE e = "ColumnNotFound" -> MkErr("DatabaseError", "ColumnNotFound", DriverText(e))
      [] e \in {"Io", "Tls"} -> MkErr("DatabaseError", "CommunicationError", "")
      [] e = "PoolTimedOut" -> MkErr("DatabaseError", "ConnectionNotAvailable", "")
      [] e = "Database" -> MkErr("DatabaseError", "QueryFailed", DriverText(e))
      [] e = "Protocol" -> MkErr("DatabaseError", "ProtocolNotSupported", "")
      [] e = "TypeNotFound" -> MkErr("DatabaseError", "DatabaseInconsistence", DriverText(e))
      [] OTHER -> MkErr("DatabaseError", "ConnectionFailed", "")

BadRequest(msg) == MkErr("ServerError", "BadRequest", msg)
Unauthorized == MkErr("ServerError", "Unauthorized", "")
InternalServerError(msg) == MkErr("ServerError", "InternalServerError", msg)

\* impl From<sqlx::Error> for ServerError
ServerErrorFromSqlx(e) == InternalServerError("Internal Server Error")

\* impl From<DatabaseError> for ServerError, which sign_in requires of ServerError
ServerErrorFromDatabaseError(e) == InternalServerError("Internal Server Error")

\* impl From<String> for ServerError, which sign_up requires of the production
\* repository's Error = String
ServerErrorFromString(msg) == InternalServerError(msg)

\* E::from(DatabaseError) for the two error types the runner is used with
FromDatabaseError(E, e) ==
    IF E = "DatabaseError" THEN e ELSE ServerErrorFromDatabaseError(e)

NoVal == [none |-> TRUE]
Ok(v) == [ok |-> TRUE, val |-> v, err |-> NoErr]
Err(e) == [ok |-> FALSE, val |-> NoVal, err |-> e]

\* impl IntoResponse for ServerError: (status, {"message": ...})
ErrorResponse(e) ==
    CASE e.t = "InternalServerError" ->
             [status |-> 500, message |-> "Internal Server Error"]
      [] e.t = "Unauthorized" -> [status |-> 401, message |-> "Unauthorized"]
      [] e.t = "BadRequest" -> [status |-> 400, message |-> e.msg]
      [] OTHER -> [status |-> 0, message |-> ""]

(***************************************************************************)
(* Ids and timestamps.  A Uuid is a number; its text form is a record, so  *)
(* that the two are never confused.  Time is counted in clock ticks.       *)
(***************************************************************************)
UuidToString(id) == [uuid |-> id]

\* DateTime::timestamp_millis / DateTime::from_timestamp_millis
timestamp_millis(t) == t \div TicksPerMs
from_timestamp_millis(ms) == ms * TicksPerMs

\* What the store returns for a timestamp bound on insert: the embedded engine
\* keeps millisecond integers, the production engine its native timestamp.
StoredTimestamp(be, t) ==
    IF be = "sqlite" THEN from_timestamp_millis(timestamp_millis(t)) ELSE t

\* ChronoToTime::to_offset_datetime: whole seconds plus the sub-second part
to_offset_datetime(t) == [secs |-> t \div TicksPerSec, sub |-> t % TicksPerSec]

\* fn cookie: the Set-Cookie value; Expires is written as an HTTP date, to the second
cookie(value, expires_at) ==
    [name |-> SESSION_KEY, value |-> value, path |-> "/", secure |-> TRUE,
     http_only |-> TRUE, expires |-> expires_at.secs]


(***************************************************************************)
(* State.                                                                  *)
(***************************************************************************)
VARIABLES
    backend,    \* "postgres" or "sqlite": the adapter the build selected
    creds,      \* committed rows of table credentials
    sessions,   \* committed rows of table sessions
    pc,         \* per request task: where its handler stands
    req,        \* per request task: the request being served
    loc,        \* per request task: the handler's local variables
    pending,    \* per request task: the writes of its open transaction
    trace,      \* per request task: the storage calls made so far
    out         \* the call that returned in the last step, if one did

vars == <<backend, creds, sessions, pc, req, loc, pending, trace, out>>

Backends == {"postgres", "sqlite"}
ValidEmails == {e \in Emails : is_valid_email(e)}

NoRow == [none |-> TRUE]
NoReq == [kind |-> "none", email |-> <<>>, password |-> <<>>, work |-> <<>>]
NoLoc == [cred |-> NoRow, val |-> NoVal, now |-> 0, lost |-> FALSE]
\* the unit of work handed to the transaction runner did not run
NotRun == [ok |-> FALSE, val |-> NoVal, err |-> MkErr("NotRun", "", "")]
NoOut == [req |-> NoReq, fault |-> NoFault, wres |-> NotRun, res |-> Ok(NoVal),
          trace |-> <<>>, lost |-> FALSE]

Request(kind, email, password) ==
    [kind |-> kind, email |-> email, password |-> password, work |-> <<>>]

(***************************************************************************)
(* The store as a transaction sees and changes it.                         *)
(***************************************************************************)
Write(op, row) == [op |-> op, row |-> row]

RowsOf(ws, op) == {ws[i].row : i \in {k \in DOMAIN ws : ws[k].op = op}}

ApplyCredWrite(c, w) ==
    CASE w.op = "ins_cred" -> c \cup {w.row}
      [] w.op = "upd_cred" -> {IF r.id = w.row.id THEN w.row ELSE r : r \in c}
      [] OTHER -> c

RECURSIVE ApplyCreds(_, _)
ApplyCreds(c, ws) ==
    IF ws = <<>> THEN c ELSE ApplyCreds(ApplyCredWrite(c, Head(ws)), Tail(ws))

ApplySessWrite(s, w) ==
    CASE w.op = "ins_sess" -> s \cup {w.row}
      [] w.op = "upd_sess" -> {IF r.id = w.row.id THEN w.row ELSE r : r \in s}
      [] OTHER -> s

RECURSIVE ApplySessions(_, _)
ApplySessions(s, ws) ==
    IF ws = <<>> THEN s ELSE ApplySessions(ApplySessWrite(s, Head(ws)), Tail(ws))

\* the rows the statements of p's transaction read
VisibleCreds(p) == ApplyCreds(creds, pending[p])
VisibleSessions(p) == ApplySessions(sessions, pending[p])

\* a row updated by another open transaction is locked until that one ends
LockedByOther(p, id) ==
    \E q \in Procs \ {p} : \E r \in RowsOf(pending[q], "upd_cred") : r.id = id

\* an email inserted by another open transaction makes an insert of it wait
InsertWaits(p, email) ==
    \E q \in Procs \ {p} : \E r \in RowsOf(pending[q], "ins_cred") : r.email = email

AllCredRows == creds \cup UNION {RowsOf(pending[q], "ins_cred") : q \in Procs}
AllSessRows == sessions \cup UNION {RowsOf(pending[q], "ins_sess") : q \in Procs}

Smallest(S) == CHOOSE n \in S : \A m \in S : n <= m

\* Uuid::new_v4 / the column default: an id no row has
FreeCredIds == (1..MaxCreds) \ {r.id : r \in AllCredRows}
\* an id generator that may hand out an id a row already has
FreeSessIds_reused == 1..(MaxSess + 1)

\* (a specification that lets the store hold MaxSess sessions leaves one
\* session id unused)
MaxSessIds == MaxSess + 1
FreeSessIds == (1..MaxSessIds) \ {r.id : r \in AllSessRows}

\* the store holds fewer sessions than MaxSess
SessionRoom == Cardinality(AllSessRows) < MaxSess

\* a generator that would give the same salt at every call
FixedSalt == CHOOSE s \in Salts : TRUE

\* SaltString::generate(&mut OsRng): a salt no stored hash has
FreshSalt ==
    CHOOSE s \in Salts :
        \A r \in AllCredRows :
            ParsesAsHash(r.password) => r.password[2] # s

\* credentials(id PK, email UNIQUE, password, active DEFAULT true)
EmailTaken(p, email) == \E c \in VisibleCreds(p) : c.email = email
DefaultActive == TRUE

FetchOptional(rows) == IF rows = {} THEN NoRow ELSE CHOOSE r \in rows : TRUE

\* the committed tables, and what ending a transaction makes of them
Db == [creds |-> creds, sessions |-> sessions]

\* Transaction::commit
Commit(db, ws) ==
    [creds |-> ApplyCreds(db.creds, ws), sessions |-> ApplySessions(db.sessions, ws)]

\* a Transaction dropped without commit is rolled back
Rollback(db, ws) == db

SetDb(db) == creds' = db.creds /\ sessions' = db.sessions


(***************************************************************************)
(* How a step of a request task ends: the handler goes on, or it returns.  *)
(***************************************************************************)
GoOn(p, at, r, l, ws, tr) ==
    /\ pc' = [pc EXCEPT ![p] = at]
    /\ req' = [req EXCEPT ![p] = r]
    /\ loc' = [loc EXCEPT ![p] = l]
    /\ pending' = [pending EXCEPT ![p] = ws]
    /\ trace' = [trace EXCEPT ![p] = tr]
    /\ out' = NoOut
    /\ UNCHANGED <<creds, sessions>>

\* History kept with a sign-up in flight: whether another sign-up for the same
\* email succeeded since it arrived (lost).
Overtaken(q, r, res) ==
    IF r.kind = "sign_up" /\ res.ok /\ req[q].kind = "sign_up" /\ req[q].email = r.email
    THEN [loc[q] EXCEPT !.lost = TRUE]
    ELSE loc[q]

\* The call of request r returns res, leaving the committed tables as db.
\* Recorded with it: the storage calls made (tr), the storage failure met (f),
\* and what the unit of work handed to the transaction runner returned (wres).
Return(p, r, f, wres, res, tr, db) ==
    /\ pc' = [pc EXCEPT ![p] = "idle"]
    /\ req' = [req EXCEPT ![p] = NoReq]
    /\ loc' = [q \in Procs |-> IF q = p THEN NoLoc ELSE Overtaken(q, r, res)]
    /\ pending' = [pending EXCEPT ![p] = <<>>]
    /\ trace' = [trace EXCEPT ![p] = <<>>]
    /\ out' = [req |-> r, fault |-> f, wres |-> wres, res |-> res, trace |-> tr,
               lost |-> loc[p].lost]
    /\ SetDb(db)

Panic(msg) == Err(MkErr("Panic", "unwrap", msg))

(***************************************************************************)
(* sign_up (backend/auth/src/handlers/sign_up.rs) over the repository of   *)
(* backend/auth/src/database.                                              *)
(***************************************************************************)
\* a validation that checks the email only
sign_up_validate_email_only(email, password) ==
    IF ~is_valid_email(email) THEN Err(BadRequest("Invalid Email Format"))
    ELSE Ok(NoVal)

sign_up_validate(email, password) ==
    IF ~is_valid_email(email) THEN Err(BadRequest("Invalid Email Format"))
    ELSE IF ~is_valid_password(password) THEN Err(BadRequest("Invalid Password Format"))
    ELSE Ok(NoVal)

\* CredentialsEntityRepository::exists when the query fails
ExistsFailure(be, f) ==
    IF be = "sqlite" THEN Err(ServerErrorFromSqlx(f)) ELSE Panic(DriverText(f))

\* an existence check that overlooks deactivated credentials
CredentialsExistsActive(p, email) ==
    \E c \in VisibleCreds(p) : c.email = email /\ c.active

\* CredentialsEntityRepository::exists: SELECT EXISTS (... WHERE email = $1)
CredentialsExists(p, email) == \E c \in VisibleCreds(p) : c.email = email

\* what CredentialsEntityRepository::exists and ::create themselves return
\* when the statement fails, before the handler's map_err(|e| e.into()): the
\* embedded repository has Error = sqlx::Error, the production one
\* Error = String (create) and an unwrap (exists)
CredentialsExistsError(be, f) ==
    IF be = "sqlite" THEN Err(MkErr("sqlx::Error", f, DriverText(f)))
    ELSE Panic(DriverText(f))

CredentialsCreateError(be, f) ==
    IF be = "sqlite" THEN Err(MkErr("sqlx::Error", f, DriverText(f)))
    ELSE Err(MkErr("String", "", DriverText(f)))

\* a handler that lets a failed INSERT pass
CreateFailureIgnored(be, f) == Ok(NoVal)

\* CredentialsEntityRepository::create when the INSERT fails
CreateFailure(be, f) ==
    IF be = "sqlite" THEN Err(ServerErrorFromSqlx(f))
    ELSE Err(ServerErrorFromString(DriverText(f)))

\* the row INSERT INTO credentials ... RETURNING gives
CreatedCredential(email, hash) ==
    [id |-> Smallest(FreeCredIds), email |-> email, password |-> hash,
     active |-> DefaultActive]

\* a representation that would leave the hash out
CredentialDTO_masked(c) ==
    [id |-> UuidToString(c.id), email |-> c.email, password |-> <<>>,
     active |-> c.active]

CredentialDTO(c) ==
    [id |-> UuidToString(c.id), email |-> c.email, password |-> c.password,
     active |-> c.active]

\* validation and pool.begin()
SignUpStart(p, email, password) ==
    /\ out = NoOut
    /\ pc[p] = "idle"
    /\ LET r == Request("sign_up", email, password)
           v == sign_up_validate(email, password)
       IN  IF ~v.ok THEN Return(p, r, NoFault, NotRun, v, <<>>, Db)
           ELSE \/ \E f \in BeginFaults :
                       Return(p, r, f, NotRun, Err(InternalServerError(DriverText(f))),
                              <<"begin">>, Db)
                \/ GoOn(p, "su_exists", r, NoLoc, <<>>, <<"begin">>)
    /\ UNCHANGED backend

\* the existence check
SignUpExists(p) ==
    /\ out = NoOut
    /\ pc[p] = "su_exists"
    /\ LET r == req[p]
           tr == Append(trace[p], "exists")
           dropped == Rollback(Db, pending[p])
       IN  \/ \E f \in QueryFaults :
                  Return(p, r, f, NotRun, ExistsFailure(backend, f), tr, dropped)
           \/ IF CredentialsExists(p, r.email)
              THEN Return(p, r, NoFault, NotRun, Err(Unauthorized), tr, dropped)
              ELSE GoOn(p, "su_create", r, loc[p], <<>>, tr)
    /\ UNCHANGED backend

\* hash_password and create
SignUpCreate(p) ==
    /\ out = NoOut
    /\ pc[p] = "su_create"
    /\ LET r == req[p]
           hash == hash_password(r.password, FreshSalt)
           tr == Append(trace[p], "create")
           dropped == Rollback(Db, pending[p])
       IN  \/ \E f \in QueryFaults :
                  Return(p, r, f, NotRun, CreateFailure(backend, f), tr, dropped)
           \/ /\ ~InsertWaits(p, r.email)
              /\ IF EmailTaken(p, r.email)
                 THEN Return(p, r, NoFault, NotRun, CreateFailure(backend, "Database"),
                             tr, dropped)
                 ELSE /\ FreeCredIds # {}
                      /\ LET c == CreatedCredential(r.email, hash)
                         IN  GoOn(p, "su_commit", r, [loc[p] EXCEPT !.cred = c],
                                  <<Write("ins_cred", c)>>, tr)
    /\ UNCHANGED backend

\* tx.commit() and the response
SignUpCommit(p) ==
    /\ out = NoOut
    /\ pc[p] = "su_commit"
    /\ LET r == req[p]
           tr == Append(trace[p], "commit")
       IN  \/ \E f \in CommitFaults :
                  Return(p, r, f, NotRun, Err(InternalServerError(DriverText(f))), tr,
                         Rollback(Db, pending[p]))
           \/ Return(p, r, NoFault, NotRun, Ok(CredentialDTO(loc[p].cred)), tr,
                     Commit(Db, pending[p]))
    /\ UNCHANGED backend

(***************************************************************************)
(* BaseDatabase::transaction (backend/database/src/traits.rs): begin, run  *)
(* the unit of work, commit.  E is the caller's error type.                *)
(***************************************************************************)
\* pool.begin().await.map_err(|e| E::from(DatabaseError::from(e)))?
transaction_begin(E, f) ==
    IF f = NoFault THEN Ok(NoVal) ELSE Err(FromDatabaseError(E, DatabaseErrorFrom(f)))

\* a runner that passes the work's error through the driver-error conversion
transaction_work_rewrapped(E, result) ==
    IF result.ok THEN result
    ELSE Err(FromDatabaseError(E, DatabaseErrorFrom("WorkFailed")))

\* let result = f(&mut tx).await?;  -- an Err of the work is returned as it is
transaction_work(E, result) == result

\* tx.commit().await.map_err(|e| E::from(DatabaseError::from(e)))?; Ok(result)
transaction_commit(E, f, result) ==
    IF f = NoFault THEN Ok(result.val)
    ELSE Err(FromDatabaseError(E, DatabaseErrorFrom(f)))

\* a runner whose failed commit leaves the writes in place
transaction_commit_db_kept(f, db, ws) == Commit(db, ws)

\* the committed tables after the runner's commit step
transaction_commit_db(f, db, ws) ==
    IF f = NoFault THEN Commit(db, ws) ELSE Rollback(db, ws)

\* a runner that would try to begin once more before giving up
BeginFailed_retried(p, r, E, f) ==
    Return(p, r, f, NotRun, transaction_begin(E, f), <<"begin", "begin">>, Db)

\* the runner returns because begin failed
BeginFailed(p, r, E, f) ==
    Return(p, r, f, NotRun, transaction_begin(E, f), <<"begin">>, Db)

\* the runner returns because the unit of work returned the error wres
WorkFailed(p, r, E, f, wres, tr) ==
    Return(p, r, f, wres, transaction_work(E, wres), tr, Rollback(Db, pending[p]))

\* the unit of work returned Ok(v): the runner commits and returns
Committing(p, r, E, v) ==
    \E f \in CommitFaults \cup {NoFault} :
        Return(p, r, f, Ok(v), transaction_commit(E, f, Ok(v)),
               Append(trace[p], "commit"), transaction_commit_db(f, Db, pending[p]))

(***************************************************************************)
(* sign_in (backend/auth/src/handlers/sign_in.rs) over the repositories of *)
(* backend/auth-database.                                                  *)
(***************************************************************************)
\* a validation that would look at the password first
sign_in_validate_password_first(email, password) ==
    IF Len(password) < MIN_LEN_PASSOWRD
    THEN Err(BadRequest("Password must be at least 6 characters long"))
    ELSE IF ~is_valid_email(email) THEN Err(BadRequest("Invalid Email Format"))
    ELSE Ok(NoVal)

sign_in_validate(email, password) ==
    IF ~is_valid_email(email) THEN Err(BadRequest("Invalid Email Format"))
    ELSE IF Len(password) < MIN_LEN_PASSOWRD
         THEN Err(BadRequest("Password must be at least 6 characters long"))
    ELSE Ok(NoVal)

\* a lookup that would see the uncommitted rows of every open transaction
CredentialsTryGetByEmail_dirty(p, email) ==
    FetchOptional({c \in UNION {VisibleCreds(q) : q \in Procs} : c.email = email})

\* EntityRepository::try_get(CredentialsBy::Email(email))
CredentialsTryGetByEmail(p, email) ==
    FetchOptional({c \in VisibleCreds(p) : c.email = email})

\* the checks without the one of the active flag
sign_in_check_no_active(maybe_credential, password) ==
    IF maybe_credential = NoRow THEN Err(Unauthorized)
    ELSE LET is_correct_password == verify_password(password, maybe_credential.password)
         IN  CASE is_correct_password = "error" ->
                      Err(InternalServerError("password hash parse error"))
               [] is_correct_password = "false" -> Err(Unauthorized)
               [] OTHER -> Ok(maybe_credential)

\* the checks, telling the caller that the account is deactivated
sign_in_check_tells_inactive(maybe_credential, password) ==
    IF maybe_credential = NoRow THEN Err(Unauthorized)
    ELSE IF ~maybe_credential.active THEN Err(BadRequest("Account deactivated"))
    ELSE LET is_correct_password == verify_password(password, maybe_credential.password)
         IN  CASE is_correct_password = "error" ->
                      Err(InternalServerError("password hash parse error"))
               [] is_correct_password = "false" -> Err(Unauthorized)
               [] OTHER -> Ok(maybe_credential)

\* the checks, taking any password for a credential that is found and active
sign_in_check_any_password(maybe_credential, password) ==
    IF maybe_credential = NoRow THEN Err(Unauthorized)
    ELSE IF ~maybe_credential.active THEN Err(Unauthorized)
    ELSE Ok(maybe_credential)

\* the checks between the lookup and the session insert
sign_in_check(maybe_credential, password) ==
    IF maybe_credential = NoRow THEN Err(Unauthorized)
    ELSE IF ~maybe_credential.active THEN Err(Unauthorized)
    ELSE LET is_correct_password == verify_password(password, maybe_credential.password)
         IN  CASE is_correct_password = "error" ->
                      Err(InternalServerError("password hash parse error"))
               [] is_correct_password = "false" -> Err(Unauthorized)
               [] OTHER -> Ok(maybe_credential)

\* a session that expires an hour after the clock read
CreateSessionsDAO_hour(credential, now) ==
    [credential_id |-> credential.id, expires_at |-> now + 60 * 60 * TicksPerSec]

\* CreateSessionsDAO { credential_id, expires_at: Utc::now() + 24h }
CreateSessionsDAO(credential, now) ==
    [credential_id |-> credential.id,
     expires_at |-> now + ONE_DAY_IN_SECONDS * TicksPerSec]

\* a session row stored without the credential of its input
InsertedSession_unbound(be, input, at) ==
    [id |-> Smallest(FreeSessIds), created_at |-> StoredTimestamp(be, at),
     expires_at |-> StoredTimestamp(be, input.expires_at),
     credential_id |-> 0, active |-> DefaultActive]

\* the row INSERT INTO sessions ... RETURNING gives
InsertedSession(be, input, at) ==
    [id |-> Smallest(FreeSessIds), created_at |-> StoredTimestamp(be, at),
     expires_at |-> StoredTimestamp(be, input.expires_at),
     credential_id |-> input.credential_id, active |-> DefaultActive]

\* Response::builder().status(OK).header(SET_COOKIE, cookie)
SignInResponse(session) ==
    [status |-> 200,
     set_cookie |-> cookie(UuidToString(session.id), to_offset_datetime(session.expires_at))]

\* a query of the unit of work fails: DatabaseError, then `?` into ServerError
SignInQueryFailure(f) == Err(ServerErrorFromDatabaseError(DatabaseErrorFrom(f)))

\* validation, begin, the credential lookup and its checks
SignInStart(p, email, password) ==
    /\ out = NoOut
    /\ pc[p] = "idle"
    /\ LET r == Request("sign_in", email, password)
           v == sign_in_validate(email, password)
           E == "ServerError"
           tr == <<"begin", "try_get">>
       IN  IF ~v.ok THEN Return(p, r, NoFault, NotRun, v, <<>>, Db)
           ELSE \/ \E f \in BeginFaults : BeginFailed(p, r, E, f)
                \/ \E f \in QueryFaults : WorkFailed(p, r, E, f, SignInQueryFailure(f), tr)
                \/ LET c == sign_in_check(CredentialsTryGetByEmail(p, email), password)
                   IN  IF ~c.ok THEN WorkFailed(p, r, E, NoFault, c, tr)
                       ELSE GoOn(p, "si_insert", r, [NoLoc EXCEPT !.cred = c.val], <<>>, tr)
    /\ UNCHANGED backend

\* the session insert and the response
SignInInsert(p, now) ==
    /\ out = NoOut
    /\ pc[p] = "si_insert"
    /\ LET r == req[p]
           E == "ServerError"
           tr == Append(trace[p], "insert_session")
       IN  \/ \E f \in QueryFaults : WorkFailed(p, r, E, f, SignInQueryFailure(f), tr)
           \/ /\ FreeSessIds # {}
              /\ LET session == InsertedSession(backend, CreateSessionsDAO(loc[p].cred, now), now)
                 IN  GoOn(p, "si_commit", r,
                          [cred |-> loc[p].cred, val |-> SignInResponse(session),
                           now |-> now, lost |-> FALSE],
                          Append(pending[p], Write("ins_sess", session)), tr)
    /\ UNCHANGED backend

\* the unit of work returned the response: the runner's commit
SignInCommit(p) ==
    /\ out = NoOut
    /\ pc[p] = "si_commit"
    /\ Committing(p, req[p], "ServerError", loc[p].val)
    /\ UNCHANGED backend

(***************************************************************************)
(* Other users of the runner: a unit of work that is a sequence of          *)
(* credential-repository calls with E = DatabaseError, as the setup of      *)
(* tests::sign_in_deactivated_account (insert, then delete by id).  A call  *)
(* that fails ends the work with the repository's error, which is what the  *)
(* runner's F: FnOnce(..) -> Result<T, E> hands back to it.                 *)
(***************************************************************************)
NoKey == [by |-> "None", email |-> <<>>, id |-> 0]
ByEmail(email) == [by |-> "Email", email |-> email, id |-> 0]
ById(id) == [by |-> "Id", email |-> <<>>, id |-> id]
ByLast == [by |-> "Last", email |-> <<>>, id |-> 0]

InsertOp(email, password) ==
    [op |-> "insert", email |-> email, password |-> password, key |-> NoKey]
DeleteOp(key) == [op |-> "delete", email |-> <<>>, password |-> <<>>, key |-> key]

\* the units of work the requests may run: deactivate a credential by email;
\* insert a credential and deactivate it by its id
Works ==
    {<<DeleteOp(ByEmail(e))>> : e \in ValidEmails}
        \cup {<<InsertOp(EmailA, PwA), DeleteOp(ByLast)>>}

\* CredentialsBy::Id(credential.id) of the entity the work holds
ResolveKey(p, key) == IF key.by = "Last" THEN ById(loc[p].cred.id) ELSE key

\* the rows WHERE id = $1 / WHERE email = $1 selects
MatchCreds(p, key) ==
    {c \in VisibleCreds(p) :
        \/ key.by = "Email" /\ c.email = key.email
        \/ key.by = "Id" /\ c.id = key.id}

\* EntityRepository::insert for credentials
CredentialsInsert(p, input) ==
    IF EmailTaken(p, input.email) THEN Err(DatabaseErrorFrom("Database"))
    ELSE Ok([id |-> Smallest(FreeCredIds), email |-> input.email,
             password |-> input.password, active |-> DefaultActive])

\* EntityRepository::delete for credentials: UPDATE ... SET active = false ... RETURNING
CredentialsDelete(p, key) ==
    LET rows == MatchCreds(p, key)
    IN  IF rows = {} THEN Err(DatabaseErrorFrom("RowNotFound"))
        ELSE Ok([FetchOptional(rows) EXCEPT !.active = FALSE])

WorkStart(p, work) ==
    /\ out = NoOut
    /\ pc[p] = "idle"
    /\ LET r == [kind |-> "work", email |-> <<>>, password |-> <<>>, work |-> work]
       IN  \/ \E f \in BeginFaults : BeginFailed(p, r, "DatabaseError", f)
           \/ GoOn(p, "w_run", r, [NoLoc EXCEPT !.val = [todo |-> work]], <<>>,
                   <<"begin">>)
    /\ UNCHANGED backend

WorkStep(p) ==
    /\ out = NoOut
    /\ pc[p] = "w_run"
    /\ LET r == req[p]
           E == "DatabaseError"
           op == Head(loc[p].val.todo)
           rest == Tail(loc[p].val.todo)
           tr == Append(trace[p], op.op)
           at == IF rest = <<>> THEN "w_commit" ELSE "w_run"
       IN  \/ \E f \in QueryFaults :
                  WorkFailed(p, r, E, f, Err(DatabaseErrorFrom(f)), tr)
           \/ /\ op.op = "insert"
              /\ ~InsertWaits(p, op.email)
              /\ LET res == CredentialsInsert(p, op)
                 IN  IF ~res.ok THEN WorkFailed(p, r, E, NoFault, res, tr)
                     ELSE /\ FreeCredIds # {}
                          /\ GoOn(p, at, r,
                                  [NoLoc EXCEPT !.cred = res.val, !.val = [todo |-> rest]],
                                  Append(pending[p], Write("ins_cred", res.val)), tr)
           \/ /\ op.op = "delete"
              /\ LET res == CredentialsDelete(p, ResolveKey(p, op.key))
                 IN  IF ~res.ok THEN WorkFailed(p, r, E, NoFault, res, tr)
                     ELSE /\ ~LockedByOther(p, res.val.id)
                          /\ GoOn(p, at, r,
                                  [NoLoc EXCEPT !.cred = res.val, !.val = [todo |-> rest]],
                                  Append(pending[p], Write("upd_cred", res.val)), tr)
    /\ UNCHANGED backend

WorkCommit(p) ==
    /\ out = NoOut
    /\ pc[p] = "w_commit"
    /\ Committing(p, req[p], "DatabaseError", [unit |-> TRUE])
    /\ UNCHANGED backend

(***************************************************************************)
(* The system.  A call that returned is handed to its caller before the    *)
(* next step is taken; handing it over changes nothing else.               *)
(***************************************************************************)
Deliver ==
    /\ out # NoOut
    /\ out' = NoOut
    /\ UNCHANGED <<backend, creds, sessions, pc, req, loc, pending, trace>>

Init ==
    /\ backend \in Backends
    /\ creds = {}
    /\ sessions = {}
    /\ pc = [p \in Procs |-> "idle"]
    /\ req = [p \in Procs |-> NoReq]
    /\ loc = [p \in Procs |-> NoLoc]
    /\ pending = [p \in Procs |-> <<>>]
    /\ trace = [p \in Procs |-> <<>>]
    /\ out = NoOut

Next ==
    \/ \E p \in Procs, e \in Emails, pw \in SignUpPasswords : SignUpStart(p, e, pw)
    \/ \E p \in Procs : SignUpExists(p)
    \/ \E p \in Procs : SignUpCreate(p)
    \/ \E p \in Procs : SignUpCommit(p)
    \/ \E p \in Procs, e \in Emails, pw \in Passwords : SignInStart(p, e, pw)
    \/ \E p \in Procs, now \in 0..MaxNow :
           /\ SignInInsert(p, now)
           /\ pc'[p] = "si_commit" => SessionRoom
    \/ \E p \in Procs : SignInCommit(p)
    \/ \E p \in Procs, w \in Works : WorkStart(p, w)
    \/ \E p \in Procs : WorkStep(p)
    \/ \E p \in Procs : WorkCommit(p)
    \/ Deliver

Spec == Init /\ [][Next]_vars

(***************************************************************************)
(* The entity repositories of backend/auth-database: the EntityRepository  *)
(* methods of the credentials and sessions adapters of both engines.  A    *)
(* statement is given the row its WHERE clause fetches first (NoRow when    *)
(* none matches) and the failure it meets, if any.  The embedded adapter    *)
(* reads and writes through its stored forms: ids as text, timestamps as   *)
(* millisecond integers.  Every millisecond count the clock of the model   *)
(* produces is in DateTime's range, so only the id texts can fail to       *)
(* convert.                                                                *)
(***************************************************************************)
MaxCalls == 1

\* SessionsBy::CredentialId
ByCredentialId(id) == [by |-> "CredentialId", email |-> <<>>, id |-> id]

\* UpdateCredentialsDAO { password, active }
UpdateCredentialsDAO(password, active) == [password |-> password, active |-> active]

\* a call of one repository method
Call(entity, op, key, input) ==
    [entity |-> entity, op |-> op, key |-> key, input |-> input]

\* what can fail in a statement: the query itself (sqlx::Error::Database), or
\* the decoding of the row it returns (sqlx::Error::ColumnDecode in the
\* driver; in the embedded engine an id text that is no uuid)
StatementFaults == {"Database", "Decode"}

\* a text that Uuid::from_str rejects
NotUuidText == [text |-> "not-a-uuid"]
IsUuidText(text) == DOMAIN text = {"uuid"}

Unknown(msg) == MkErr("DatabaseError", "Unknown", msg)

\* impl From<CredentialsDAO> for SqliteCredentialsDAO
SqliteCredentialsDAO(value) ==
    [id |-> UuidToString(value.id), email |-> value.email,
     password |-> value.password, active |-> value.active]

\* a conversion that would put the nil uuid for an id text it cannot parse
TryFromSqliteCredentialsDAO_lenient(value) ==
    Ok([id |-> IF IsUuidText(value.id) THEN value.id.uuid ELSE 0,
        email |-> value.email, password |-> value.password,
        active |-> value.active])

\* impl TryFrom<SqliteCredentialsDAO> for CredentialsDAO
TryFromSqliteCredentialsDAO(value) ==
    IF ~IsUuidText(value.id) THEN Err(Unknown("Could not convert id to uuid"))
    ELSE Ok([id |-> value.id.uuid, email |-> value.email,
             password |-> value.password, active |-> value.active])

\* DateTime::from_timestamp_millis gives None for a count outside the range
\* of DateTime<Utc>; the range is taken as wide as the timestamps of the
\* model need
MaxMillis == timestamp_millis(MaxNow + ONE_DAY_IN_SECONDS * TicksPerSec) + MsPerSec
Representable(ms) == ms >= 0 /\ ms <= MaxMillis

\* impl From<SessionsDAO> for SqliteSessionsDAO
SqliteSessionsDAO(value) ==
    [id |-> UuidToString(value.id),
     created_at |-> timestamp_millis(value.created_at),
     expires_at |-> timestamp_millis(value.expires_at),
     credential_id |-> UuidToString(value.credential_id),
     active |-> value.active]

\* a conversion back that takes the millisecond counts for tick counts
TryFromSqliteSessionsDAO_ticks(value) ==
    IF ~IsUuidText(value.id) THEN Err(Unknown("Could not convert id to uuid"))
    ELSE IF ~IsUuidText(value.credential_id)
         THEN Err(Unknown("Could not convert credential_id to uuid"))
    ELSE Ok([id |-> value.id.uuid,
             created_at |-> value.created_at,
             expires_at |-> value.expires_at,
             credential_id |-> value.credential_id.uuid,
             active |-> value.active])

\* impl TryFrom<SqliteSessionsDAO> for SessionsDAO
TryFromSqliteSessionsDAO(value) ==
    IF ~IsUuidText(value.id) THEN Err(Unknown("Could not convert id to uuid"))
    ELSE IF ~Representable(value.created_at)
         THEN Err(Unknown("Could not convert created_at to DateTime<Utc>"))
    ELSE IF ~Representable(value.expires_at)
         THEN Err(Unknown("Could not convert expires_at to DateTime<Utc>"))
    ELSE IF ~IsUuidText(value.credential_id)
         THEN Err(Unknown("Could not convert credential_id to uuid"))
    ELSE Ok([id |-> value.id.uuid,
             created_at |-> from_timestamp_millis(value.created_at),
             expires_at |-> from_timestamp_millis(value.expires_at),
             credential_id |-> value.credential_id.uuid,
             active |-> value.active])

\* a stored form that would keep expires_at in seconds
SqliteCreateSessionsDAO_seconds(value) ==
    [expires_at |-> value.expires_at \div TicksPerSec,
     credential_id |-> UuidToString(value.credential_id)]

\* impl From<CreateSessionsDAO> for SqliteCreateSessionsDAO
SqliteCreateSessionsDAO(value) ==
    [expires_at |-> timestamp_millis(value.expires_at),
     credential_id |-> UuidToString(value.credential_id)]

\* the stored form of a row of the embedded engine, as the statement reads it
StoredForm(entity, row, f) ==
    LET stored == IF entity = "credentials" THEN SqliteCredentialsDAO(row)
                  ELSE SqliteSessionsDAO(row)
    IN  IF f = "Decode" THEN [stored EXCEPT !.id = NotUuidText] ELSE stored

\* query_as::<_, Self::Entity> in the production adapter; query_as::<_, Sqlite..DAO>
\* followed by Self::Entity::try_from in the embedded one
Decoded(be, entity, row, f) ==
    IF be = "sqlite"
    THEN IF entity = "credentials"
         THEN TryFromSqliteCredentialsDAO(StoredForm(entity, row, f))
         ELSE TryFromSqliteSessionsDAO(StoredForm(entity, row, f))
    ELSE IF f = "Decode" THEN Err(DatabaseErrorFrom("ColumnDecode"))
    ELSE Ok(row)

\* a fetch that would answer Ok with no row when the statement returns none
fetch_one_or_none(be, entity, first, f) ==
    IF f = "Database" THEN Err(DatabaseErrorFrom(f))
    ELSE IF first = NoRow THEN Ok(NoRow)
    ELSE Decoded(be, entity, first, f)

\* .fetch_one(..).await.map_err(DatabaseError::from), then the decoding
fetch_one(be, entity, first, f) ==
    IF f = "Database" THEN Err(DatabaseErrorFrom(f))
    ELSE IF first = NoRow THEN Err(DatabaseErrorFrom("RowNotFound"))
    ELSE Decoded(be, entity, first, f)

\* EntityRepository::get: SELECT .. LIMIT 1 with fetch_one
get(be, entity, first, f) == fetch_one(be, entity, first, f)

\* a try_get that fails when no row matches
try_get_or_fail(be, entity, first, f) == fetch_one(be, entity, first, f)

\* EntityRepository::try_get: SELECT with fetch_optional
try_get(be, entity, first, f) ==
    IF f = "Database" THEN Err(DatabaseErrorFrom(f))
    ELSE IF first = NoRow THEN Ok(NoRow)
    ELSE Decoded(be, entity, first, f)

\* an existence check that counts active rows only
exists_active(be, entity, first, f) ==
    LET r == try_get(be, entity, first, f)
    IN  IF r.ok THEN Ok(r.val # NoRow /\ r.val.active) ELSE r

\* EntityRepository::exists: Ok(Self::try_get(tx, key).await?.is_some())
exists(be, entity, first, f) ==
    LET r == try_get(be, entity, first, f)
    IN  IF r.ok THEN Ok(r.val # NoRow) ELSE r

\* the row UPDATE .. SET active = false .. RETURNING gives
Deactivate(row) == IF row = NoRow THEN NoRow ELSE [row EXCEPT !.active = FALSE]

\* a delete that removes nothing and returns the row as it was
delete_noop(be, entity, first, f) == fetch_one(be, entity, first, f)

\* EntityRepository::delete: UPDATE .. SET active = false WHERE .. RETURNING
delete(be, entity, first, f) == fetch_one(be, entity, Deactivate(first), f)

\* an UPDATE that would set the password and leave active as it is
Updated_password_only(row, input) ==
    IF row = NoRow THEN NoRow ELSE [row EXCEPT !.password = input.password]

\* an UPDATE that would set the email as well
Updated_rekeyed(row, input) ==
    IF row = NoRow THEN NoRow
    ELSE [row EXCEPT !.email = EmailA, !.password = input.password,
                     !.active = input.active]

\* the row UPDATE credentials SET password = $2, active = $3 .. RETURNING gives
Updated(row, input) ==
    IF row = NoRow THEN NoRow
    ELSE [row EXCEPT !.password = input.password, !.active = input.active]

\* unreachable!("")
Unreachable == Err(MkErr("Panic", "unreachable", ""))

\* a session update that answers with the row
update_returns(be, entity, first, input, f) ==
    IF entity = "sessions" THEN fetch_one(be, entity, first, f)
    ELSE fetch_one(be, entity, Updated(first, input), f)

\* EntityRepository::update: for credentials UPDATE .. RETURNING with
\* fetch_one; for sessions unreachable!("")
update(be, entity, first, input, f) ==
    IF entity = "sessions" THEN Unreachable
    ELSE fetch_one(be, entity, Updated(first, input), f)

\* the row INSERT INTO sessions (.., expires_at, credential_id) .. RETURNING
\* gives at store time `at`; the embedded adapter binds the input's stored form
SessionsInsert(be, input, at) ==
    IF be = "sqlite"
    THEN LET i == SqliteCreateSessionsDAO(input)
         IN  TryFromSqliteSessionsDAO(
                 [id |-> UuidToString(Smallest(FreeSessIds)),
                  created_at |-> timestamp_millis(at),
                  expires_at |-> i.expires_at,
                  credential_id |-> i.credential_id,
                  active |-> DefaultActive])
    ELSE Ok([id |-> Smallest(FreeSessIds), created_at |-> at,
             expires_at |-> input.expires_at,
             credential_id |-> input.credential_id, active |-> DefaultActive])

\* EntityRepository::insert: INSERT .. RETURNING with fetch_one
insert(be, entity, p, input, at, f) ==
    IF f = "Database" THEN Err(DatabaseErrorFrom(f))
    ELSE IF f = "Decode" /\ be # "sqlite" THEN Err(DatabaseErrorFrom("ColumnDecode"))
    ELSE LET r == IF entity = "credentials" THEN CredentialsInsert(p, input)
                  ELSE SessionsInsert(be, input, at)
         IN  IF r.ok THEN Decoded(be, entity, r.val, f) ELSE r

\* the rows WHERE id = $1 / email = $1 / credential_id = $1 selects
Matching(rows, key) ==
    {r \in rows :
        \/ key.by = "Email" /\ r.email = key.email
        \/ key.by = "Id" /\ r.id = key.id
        \/ key.by = "CredentialId" /\ r.credential_id = key.id}

\* what the method called returns
Method(be, p, call, first, at, f) ==
    CASE call.op = "insert" -> insert(be, call.entity, p, call.input, at, f)
      [] call.op = "get" -> get(be, call.entity, first, f)
      [] call.op = "try_get" -> try_get(be, call.entity, first, f)
      [] call.op = "exists" -> exists(be, call.entity, first, f)
      [] call.op = "update" -> update(be, call.entity, first, call.input, f)
      [] call.op = "delete" -> delete(be, call.entity, first, f)

RECURSIVE WritesOf(_, _)
WritesOf(op, rows) ==
    IF rows = {} THEN <<>>
    ELSE LET r == CHOOSE x \in rows : TRUE
         IN  <<Write(op, r)>> \o WritesOf(op, rows \ {r})

\* a deactivation of credentials that would cascade to their sessions
Statement_cascading(call, matching, res) ==
    LET ins == IF call.entity = "credentials" THEN "ins_cred" ELSE "ins_sess"
        upd == IF call.entity = "credentials" THEN "upd_cred" ELSE "upd_sess"
        theirs == IF call.entity # "credentials" THEN {}
                  ELSE {s \in sessions : \E r \in matching : s.credential_id = r.id}
    IN  CASE call.op = "insert" -> <<Write(ins, res.val)>>
          [] call.op = "delete" ->
                 WritesOf(upd, {Deactivate(r) : r \in matching})
                     \o WritesOf("upd_sess", {Deactivate(s) : s \in theirs})
          [] call.op = "update" ->
                 WritesOf(upd, {Updated(r, call.input) : r \in matching})
          [] OTHER -> <<>>

\* a delete that would deactivate only the row it returns
Statement_returned_only(call, matching, res) ==
    LET ins == IF call.entity = "credentials" THEN "ins_cred" ELSE "ins_sess"
        upd == IF call.entity = "credentials" THEN "upd_cred" ELSE "upd_sess"
    IN  CASE call.op = "insert" -> <<Write(ins, res.val)>>
          [] call.op = "delete" ->
                 WritesOf(upd, {Deactivate(r) : r \in {m \in matching : m.id = res.val.id}})
          [] call.op = "update" ->
                 WritesOf(upd, {Updated(r, call.input) : r \in matching})
          [] OTHER -> <<>>

\* the writes the statement of the call leaves in the transaction
Statement(call, matching, res) ==
    LET ins == IF call.entity = "credentials" THEN "ins_cred" ELSE "ins_sess"
        upd == IF call.entity = "credentials" THEN "upd_cred" ELSE "upd_sess"
    IN  CASE call.op = "insert" -> <<Write(ins, res.val)>>
          [] call.op = "delete" -> WritesOf(upd, {Deactivate(r) : r \in matching})
          [] call.op = "update" ->
                 WritesOf(upd, {Updated(r, call.input) : r \in matching})
          [] OTHER -> <<>>

\* the queries a method sends: exists sends the one of try_get
QueriesOf(call) == IF call.op = "exists" THEN <<"try_get">> ELSE <<call.op>>

\* a session row updated by another open transaction is locked until it ends
SessionLockedByOther(p, id) ==
    \E q \in Procs \ {p} : \E r \in RowsOf(pending[q], "upd_sess") : r.id = id

\* the statement has to wait for a transaction of another task
Waits(p, call, matching) ==
    \/ call.entity = "credentials" /\ call.op = "insert"
         /\ InsertWaits(p, call.input.email)
    \/ call.op \in {"update", "delete"} /\ call.entity = "credentials"
         /\ \E r \in matching : LockedByOther(p, r.id)
    \/ call.op = "delete" /\ call.entity = "sessions"
         /\ \E r \in matching : SessionLockedByOther(p, r.id)

\* the keys and inputs the callers pass
CredentialKeys == {ByEmail(e) : e \in ValidEmails} \cup {ById(i) : i \in 1..MaxCreds}
SessionKeys ==
    {ById(i) : i \in 1..MaxSess} \cup {ByCredentialId(i) : i \in 1..MaxCreds}

RepoCalls ==
    {Call("credentials", "insert", NoKey, [email |-> e, password |-> PwA]) :
         e \in ValidEmails}
      \cup {Call("credentials", op, k, NoVal) :
                op \in {"get", "try_get", "exists", "delete"}, k \in CredentialKeys}
      \cup {Call("credentials", "update", k, UpdateCredentialsDAO(PwB, a)) :
                k \in CredentialKeys, a \in BOOLEAN}
      \cup {Call("sessions", "insert", NoKey, [credential_id |-> i]) : i \in 1..MaxCreds}
      \cup {Call("sessions", op, k, NoVal) :
                op \in {"get", "try_get", "exists", "update", "delete"},
                k \in SessionKeys}

RepoRequest(work) ==
    [kind |-> "repo", email |-> <<>>, password |-> <<>>, work |-> work]

\* a task opens a transaction of the runner for repository calls
RepoBegin(p) ==
    /\ out = NoOut
    /\ pc[p] = "idle"
    /\ \/ \E f \in BeginFaults : BeginFailed(p, RepoRequest(<<>>), "DatabaseError", f)
       \/ GoOn(p, "repo", RepoRequest(<<>>), NoLoc, <<>>, <<"begin">>)
    /\ UNCHANGED backend

\* the call returned Ok: the unit of work goes on inside its transaction
Answered(p, call, res, ws) ==
    /\ pending' = [pending EXCEPT ![p] = pending[p] \o ws]
    /\ trace' = [trace EXCEPT ![p] = Append(trace[p], "call")]
    /\ out' = [req |-> RepoRequest(<<call>>), fault |-> NoFault, wres |-> res,
               res |-> res, trace |-> QueriesOf(call), lost |-> FALSE]
    /\ UNCHANGED <<pc, req, loc, creds, sessions>>

\* One repository call inside the open transaction.  An Err ends the unit of
\* work with that error (the callers propagate it with `?`), so the runner
\* returns it and the transaction is rolled back; a panic unwinds the task
\* and drops the transaction likewise.
RepoCall(p, c, at, f) ==
    /\ out = NoOut
    /\ pc[p] = "repo"
    /\ LET call == IF c.entity = "sessions" /\ c.op = "insert"
                   THEN [c EXCEPT !.input = CreateSessionsDAO([id |-> c.input.credential_id], at)]
                   ELSE c
           rows == IF call.entity = "credentials" THEN VisibleCreds(p)
                   ELSE VisibleSessions(p)
           matching == Matching(rows, call.key)
       IN  /\ ~Waits(p, call, matching)
           /\ call.op = "insert" =>
                  IF call.entity = "credentials"
                  THEN EmailTaken(p, call.input.email) \/ FreeCredIds # {}
                  ELSE /\ FreeSessIds # {}
                       /\ \E cr \in VisibleCreds(p) : cr.id = call.input.credential_id
           /\ \E first \in (IF matching = {} THEN {NoRow} ELSE matching) :
                  LET res == Method(backend, p, call, first, at, f)
                  IN  IF res.ok
                      THEN Answered(p, call, res, Statement(call, matching, res))
                      ELSE Return(p, RepoRequest(<<call>>), f, res,
                                  transaction_work("DatabaseError", res),
                                  QueriesOf(call), Rollback(Db, pending[p]))
    /\ UNCHANGED backend

\* the unit of work returned Ok: the runner's commit
RepoCommit(p) ==
    /\ out = NoOut
    /\ pc[p] = "repo"
    /\ Committing(p, req[p], "DatabaseError", [unit |-> TRUE])
    /\ UNCHANGED backend

\* A single client: it signs up, or it makes one repository call in a
\* transaction of the runner.
Client == CHOOSE p \in Procs : TRUE

RepoNext ==
    \/ RepoBegin(Client)
    \/ \E c \in RepoCalls, f \in StatementFaults \cup {NoFault} :
           /\ Len(trace[Client]) = 1
           /\ (c.entity = "sessions" /\ c.op = "insert") => SessionRoom
           /\ RepoCall(Client, c, MaxNow, f)
    \/ RepoCommit(Client)
    \/ SignUpStart(Client, EmailA, PwA)
    \/ SignUpExists(Client)
    \/ SignUpCreate(Client)
    \/ SignUpCommit(Client)
    \/ Deliver

RepoSpec == Init /\ [][RepoNext]_vars

\* the calls of the credentials repository that write
WriteCalls ==
    {c \in RepoCalls : c.entity = "credentials" /\ c.op \in {"insert", "update", "delete"}}

\* Concurrent tasks: each signs up, or makes up to MaxCalls writing calls of
\* the credentials repository in one transaction of the runner.
WriteNext ==
    \/ \E p \in Procs : RepoBegin(p)
    \/ \E p \in Procs, c \in WriteCalls :
           /\ Len(trace[p]) <= MaxCalls
           /\ RepoCall(p, c, MaxNow, NoFault)
    \/ \E p \in Procs : RepoCommit(p)
    \/ \E p \in Procs : SignUpStart(p, EmailA, PwA)
    \/ \E p \in Procs : SignUpExists(p)
    \/ \E p \in Procs : SignUpCreate(p)
    \/ \E p \in Procs : SignUpCommit(p)
    \/ Deliver

WriteSpec == Init /\ [][WriteNext]_vars

\* the calls made on the tables sign-up and sign-in fill: update and delete
\* of credentials; get, try_get and delete of sessions, by either key
SessionCalls ==
    {c \in RepoCalls : c.entity = "credentials" /\ c.op \in {"update", "delete"}}
      \cup {Call("sessions", op, k, NoVal) :
                op \in {"get", "try_get", "delete"},
                k \in {ById(i) : i \in 1..MaxSessIds}
                        \cup {ByCredentialId(i) : i \in 1..MaxCreds}}

\* A single client that signs up, signs in (as often as there are session
\* ids) and makes calls of the repositories on what that left, one call in
\* a transaction of the runner.
SessionNext ==
    \/ \E e \in ValidEmails : SignUpStart(Client, e, PwA)
    \/ SignUpExists(Client)
    \/ SignUpCreate(Client)
    \/ SignUpCommit(Client)
    \/ \E e \in ValidEmails : SignInStart(Client, e, PwA)
    \/ SignInInsert(Client, MaxNow)
    \/ SignInCommit(Client)
    \/ RepoBegin(Client)
    \/ \E c \in SessionCalls :
           /\ Len(trace[Client]) = 1
           /\ RepoCall(Client, c, MaxNow, NoFault)
    \/ RepoCommit(Client)
    \/ Deliver

SessionSpec == Init /\ [][SessionNext]_vars

\* the calls that deactivate a credential and that set its password and
\* active: the caller of update passes the hash of the new password
ReactivateCalls ==
    {Call("credentials", "delete", k, NoVal) : k \in CredentialKeys}
      \cup {Call("credentials", "update", k,
                 UpdateCredentialsDAO(hash_password(PwB, "s3"), a)) :
                k \in CredentialKeys, a \in BOOLEAN}

\* A single client that signs up, signs in with the password of the sign-up
\* or the one of the update, and deactivates or updates credentials, one call
\* in a transaction of the runner.
ReactivateNext ==
    \/ \E e \in ValidEmails : SignUpStart(Client, e, PwA)
    \/ SignUpExists(Client)
    \/ SignUpCreate(Client)
    \/ SignUpCommit(Client)
    \/ \E e \in ValidEmails, pw \in {PwA, PwB} : SignInStart(Client, e, pw)
    \/ /\ SignInInsert(Client, MaxNow)
       /\ pc'[Client] = "si_commit" => SessionRoom
    \/ SignInCommit(Client)
    \/ RepoBegin(Client)
    \/ \E c \in ReactivateCalls :
           /\ Len(trace[Client]) = 1
           /\ RepoCall(Client, c, MaxNow, NoFault)
    \/ RepoCommit(Client)
    \/ Deliver

ReactivateSpec == Init /\ [][ReactivateNext]_vars

(***************************************************************************)
(* Properties.  `out` holds the call that returned in the step just taken, *)
(* so in a step with out' # NoOut the unprimed tables are those before the *)
(* return and the primed ones those after it.                              *)
(***************************************************************************)
Contains(seq, x) == \E i \in DOMAIN seq : seq[i] = x

\* the call went through BaseDatabase::transaction
ViaRunner(o) == o.req.kind \in {"sign_in", "work"} /\ o.trace # <<>>

\* the error type E the runner is used with by the request
ErrorTypeOf(r) == IF r.kind = "work" THEN "DatabaseError" ELSE "ServerError"

TablesUnchanged == creds' = creds /\ sessions' = sessions

\* C1: when the unit of work returns an error, the transaction call returns
\* that very error (same kind, same content), commit is never attempted, and
\* the committed tables are as before the call, whatever the work wrote.
C1_WorkErrorReturnedAsIs ==
    [][(out' # NoOut /\ ViaRunner(out') /\ out'.wres # NotRun /\ ~out'.wres.ok) =>
          /\ out'.res = out'.wres
          /\ ~Contains(out'.trace, "commit")
          /\ TablesUnchanged]_vars

\* a unit of work inserted a credential and then failed on its next call
C1_Witness ==
    /\ out.req.kind = "work"
    /\ out.trace = <<"begin", "insert", "delete">>
    /\ out.wres # NotRun /\ ~out.wres.ok
    /\ out.res = out.wres

\* C2: the transaction call returns Ok(v) only after begin, work, commit in
\* that order with the commit succeeded, v being the work's value; when begin
\* or commit fails it returns the error converted from the DatabaseError of
\* the failure, the work's value is dropped and none of its writes is
\* committed; a sign-in response with Set-Cookie names a committed session.
C2_OkOnlyAfterCommit ==
    [][(out' # NoOut /\ ViaRunner(out')) =>
          LET o == out'
              n == Len(o.trace)
          IN  /\ o.res.ok =>
                    /\ n >= 3 /\ o.trace[1] = "begin" /\ o.trace[n] = "commit"
                    /\ \A i \in 2..(n - 1) : o.trace[i] \notin {"begin", "commit"}
                    /\ o.fault = NoFault
                    /\ o.wres.ok /\ o.res.val = o.wres.val
                    /\ o.req.kind = "sign_in" =>
                           \E s \in sessions' :
                               o.res.val.set_cookie.value = UuidToString(s.id)
              /\ o.fault \in BeginFaults \cup CommitFaults =>
                    /\ o.res = Err(FromDatabaseError(ErrorTypeOf(o.req),
                                                     DatabaseErrorFrom(o.fault)))
                    /\ o.fault \in BeginFaults => o.trace = <<"begin">>
                    /\ o.fault \in CommitFaults => o.wres.ok /\ o.trace[n] = "commit"
                    /\ TablesUnchanged]_vars

\* a sign-in whose session insert was made and whose commit then failed
C2_Witness ==
    /\ out.req.kind = "sign_in"
    /\ out.fault \in CommitFaults
    /\ out.wres.ok /\ ~out.res.ok
    /\ out.trace = <<"begin", "try_get", "insert_session", "commit">>

\* the request of this kind returned in its first step (validation, begin and
\* first query), or went on past it
ReturnedAtOnce(kind) == out' # NoOut /\ pc' = pc /\ out'.req.kind = kind
WentOn(p, kind) == pc[p] = "idle" /\ pc'[p] # "idle" /\ req'[p].kind = kind

Registered(email) == \E c \in creds : c.email = email

\* C3: a row enters the committed sessions table only in the commit of a
\* sign-in transaction that found a credential by the presented email, saw it
\* active and verified the presented password against its stored hash; the
\* row is the one that transaction inserted, for that credential.
C3_SessionsOnlyFromVerifiedSignIn ==
    [][\A s \in sessions' \ sessions :
          \E p \in Procs :
              /\ pc[p] = "si_commit" /\ req[p].kind = "sign_in"
              /\ out'.req = req[p] /\ out'.res.ok
              /\ s \in RowsOf(pending[p], "ins_sess")
              /\ loc[p].cred # NoRow
              /\ \E c \in creds : c.id = loc[p].cred.id /\ c.email = req[p].email
              /\ loc[p].cred.email = req[p].email
              /\ loc[p].cred.active
              /\ verify_password(req[p].password, loc[p].cred.password) = "true"
              /\ s.credential_id = loc[p].cred.id]_vars

\* a sign-in committed its session
C3_Witness ==
    /\ out.req.kind = "sign_in" /\ out.res.ok
    /\ \E s \in sessions : out.res.val.set_cookie.value = UuidToString(s.id)

\* the existence check of a sign-up whose email has a credential row: it
\* returns Unauthorized unless the query fails, and nothing is written
ExistsCheckRefuses ==
    \A p \in Procs :
        (pc[p] = "su_exists" /\ pc'[p] # pc[p] /\ Registered(req[p].email)) =>
            /\ pc'[p] = "idle"
            /\ out'.fault = NoFault => out'.res = Err(Unauthorized)
            /\ creds' = creds

\* C4 as stated: sign-up with a valid email that has a credential row returns
\* Unauthorized and leaves the credential rows unchanged (the request's
\* storage calls not failing): it is refused by the existence check, and by
\* nothing before it.
C4_Original ==
    [][/\ ExistsCheckRefuses
       /\ (ReturnedAtOnce("sign_up") /\ out'.fault = NoFault
            /\ is_valid_email(out'.req.email) /\ Registered(out'.req.email)) =>
              out'.res = Err(Unauthorized) /\ creds' = creds]_vars

\* C4: sign-up with a valid email and a password of at least 6 characters,
\* whose email has a credential row (active or deactivated) and whose storage
\* calls do not fail, returns Unauthorized and leaves the credential rows
\* unchanged: it reaches the existence check, which refuses it.
C4_RegisteredEmailUnauthorized ==
    [][/\ ExistsCheckRefuses
       /\ (ReturnedAtOnce("sign_up") /\ out'.fault = NoFault
            /\ is_valid_email(out'.req.email) /\ is_valid_password(out'.req.password)
            /\ Registered(out'.req.email)) =>
              out'.res = Err(Unauthorized) /\ creds' = creds]_vars

\* a sign-up for the email of a deactivated credential was refused
C4_Witness ==
    /\ out.req.kind = "sign_up" /\ out.res = Err(Unauthorized)
    /\ \E c \in creds : c.email = out.req.email /\ ~c.active

\* no two committed credential rows have the same email
UniqueEmail == \A c, d \in creds : c.email = d.email => c = d

\* what holds of two racing sign-ups however the race goes: a sign-up
\* overtaken by a successful one for the same email fails and writes nothing;
\* a successful sign-up adds exactly one row, the only one with its email
RaceHasOneWinner ==
    /\ UniqueEmail'
    /\ (out' # NoOut /\ out'.req.kind = "sign_up") =>
          /\ out'.lost => ~out'.res.ok /\ creds' = creds
          /\ out'.res.ok =>
                \E c \in creds' \ creds :
                    /\ creds' = creds \cup {c}
                    /\ c.email = out'.req.email
                    /\ out'.res.val.id = UuidToString(c.id)

\* the error a failed INSERT (here: of a taken email) is mapped to
ConstraintViolationError == CreateFailure(backend, "Database")

\* C5 as stated: of two sign-ups for the same email in flight together, one
\* succeeds and the other fails with the constraint-violation-mapped error
\* (no other storage failure occurring); never two successes, one row.
C5_Original ==
    [][/\ RaceHasOneWinner
       /\ (out' # NoOut /\ out'.req.kind = "sign_up" /\ out'.lost
            /\ out'.fault = NoFault) =>
              out'.res = ConstraintViolationError]_vars

\* C5: of two sign-ups for the same email in flight together, never both
\* succeed and one row for the email exists after a success; the one
\* overtaken fails (no other storage failure occurring) with Unauthorized when
\* its existence check runs after the winner's commit, and with the
\* constraint-violation-mapped error when its check ran before it.
C5_RaceOneWinner ==
    [][/\ RaceHasOneWinner
       /\ (out' # NoOut /\ out'.req.kind = "sign_up" /\ out'.lost
            /\ out'.fault = NoFault) =>
              \/ out'.res = Err(Unauthorized) /\ out'.trace = <<"begin", "exists">>
              \/ /\ out'.res = ConstraintViolationError
                 /\ out'.trace = <<"begin", "exists", "create">>]_vars

\* both sign-ups passed the existence check; the overtaken one hit the constraint
C5_Witness ==
    /\ out.req.kind = "sign_up" /\ out.lost /\ out.fault = NoFault
    /\ out.res = ConstraintViolationError
    /\ out.trace = <<"begin", "exists", "create">>
    /\ Cardinality({c \in creds : c.email = out.req.email}) = 1

Deactivated(email) == \E c \in creds : c.email = email /\ ~c.active

\* a sign-in that met no storage failure answered in its first step
SignInAnswered ==
    ReturnedAtOnce("sign_in") /\ out'.fault = NoFault /\ is_valid_email(out'.req.email)

\* what the caller gets for an email without a credential row (and a
\* well-formed password): 401 Unauthorized, and no session
UnknownEmailUnauthorized ==
    (SignInAnswered /\ is_valid_password(out'.req.password)
     /\ ~Registered(out'.req.email)) =>
        /\ out'.res = Err(Unauthorized)
        /\ ErrorResponse(out'.res.err) = [status |-> 401, message |-> "Unauthorized"]
        /\ TablesUnchanged

\* C6 as stated: sign-in with the email of a deactivated credential returns
\* Unauthorized, the response of an unknown email, whatever the password.
C6_Original ==
    [][/\ UnknownEmailUnauthorized
       /\ (SignInAnswered /\ Deactivated(out'.req.email)) =>
              /\ out'.res = Err(Unauthorized)
              /\ ErrorResponse(out'.res.err) = [status |-> 401, message |-> "Unauthorized"]
              /\ TablesUnchanged
       /\ \A p \in Procs : WentOn(p, "sign_in") => ~Deactivated(req'[p].email)]_vars

\* C6: sign-in with the email of a deactivated credential and a password of at
\* least 6 characters (the correct one included; no storage failure) returns
\* Unauthorized with the status and body an unknown email gets, and goes on
\* to no session insert; with a shorter password both get the same BadRequest.
C6_DeactivatedLikeUnknown ==
    [][/\ UnknownEmailUnauthorized
       /\ (SignInAnswered /\ Deactivated(out'.req.email)) =>
              /\ is_valid_password(out'.req.password) =>
                    /\ out'.res = Err(Unauthorized)
                    /\ ErrorResponse(out'.res.err) =
                           [status |-> 401, message |-> "Unauthorized"]
              /\ out'.res = IF is_valid_password(out'.req.password)
                            THEN sign_in_check(NoRow, out'.req.password)
                            ELSE sign_in_validate(out'.req.email, out'.req.password)
              /\ TablesUnchanged
       /\ \A p \in Procs : WentOn(p, "sign_in") => ~Deactivated(req'[p].email)]_vars

\* a sign-in with the correct password of a deactivated credential was refused
C6_Witness ==
    /\ out.req.kind = "sign_in" /\ out.res = Err(Unauthorized)
    /\ \E c \in creds :
           /\ c.email = out.req.email /\ ~c.active
           /\ verify_password(out.req.password, c.password) = "true"

\* the credential row of the email is active and its hash rejects the password
ActiveButWrongPassword(email, password) ==
    \E c \in creds :
        c.email = email /\ c.active /\ verify_password(password, c.password) = "false"

\* C7: sign-in with the email of an active credential and a well-formed
\* password that its stored hash rejects returns Unauthorized (no storage
\* failure occurring), inserts no session, and leaves both tables unchanged.
C7_WrongPasswordUnauthorized ==
    [][/\ (SignInAnswered /\ is_valid_password(out'.req.password)
            /\ ActiveButWrongPassword(out'.req.email, out'.req.password)) =>
              /\ out'.res = Err(Unauthorized)
              /\ out'.trace = <<"begin", "try_get">>
              /\ TablesUnchanged
       /\ \A p \in Procs :
              WentOn(p, "sign_in") =>
                  ~ActiveButWrongPassword(req'[p].email, req'[p].password)]_vars

\* a sign-in with a wrong password for an active credential was refused
C7_Witness ==
    /\ out.req.kind = "sign_in" /\ out.res = Err(Unauthorized)
    /\ out.req.password = PwB
    /\ ActiveButWrongPassword(out.req.email, out.req.password)
    /\ sessions = {}

\* the credential row of the email is active and its hash accepts the password
ActiveAndVerifies(email, password) ==
    \E c \in creds :
        c.email = email /\ c.active /\ verify_password(password, c.password) = "true"

\* C8: a successful sign-up commits an active credential whose hash accepts
\* the password; a sign-in with the same pair while that row is active, no
\* storage call failing, is not refused, and its commit adds exactly one
\* session, whose credential_id is the id sign-up returned for that email.
C8_SignUpThenSignIn ==
    [][/\ (out' # NoOut /\ out'.req.kind = "sign_up" /\ out'.res.ok) =>
              \E c \in creds' \ creds :
                  /\ c.email = out'.req.email /\ c.active
                  /\ verify_password(out'.req.password, c.password) = "true"
                  /\ out'.res.val.id = UuidToString(c.id)
       /\ (out' # NoOut /\ out'.req.kind = "sign_in" /\ out'.fault = NoFault
            /\ ActiveAndVerifies(out'.req.email, out'.req.password)) =>
              /\ out'.res.ok
              /\ out'.trace = <<"begin", "try_get", "insert_session", "commit">>
              /\ creds' = creds
              /\ \E s \in sessions' \ sessions :
                     /\ sessions' = sessions \cup {s}
                     /\ \E c \in creds : c.email = out'.req.email /\ s.credential_id = c.id
                     /\ out'.res.val.set_cookie.value = UuidToString(s.id)
       /\ \A p \in Procs :
              (pc[p] = "idle" /\ pc'[p] = "si_insert") <=>
                  /\ WentOn(p, "sign_in")
                  /\ ActiveAndVerifies(req'[p].email, req'[p].password)]_vars

\* a sign-in with the pair of an earlier sign-up committed its session
C8_Witness ==
    /\ out.req.kind = "sign_in" /\ out.res.ok
    /\ ActiveAndVerifies(out.req.email, out.req.password)
    /\ \E s \in sessions, c \in creds :
           /\ c.email = out.req.email /\ s.credential_id = c.id
           /\ out.res.val.set_cookie.value = UuidToString(s.id)

\* the session a sign-in at its commit has inserted
InsertedBy(p) == CHOOSE s \in RowsOf(pending[p], "ins_sess") : TRUE

\* the cookie names the session and carries the attributes; its Expires is the
\* session's stored expires_at cut to the second
CookieOf(c, s) ==
    /\ c.name = "ssid" /\ c.value = UuidToString(s.id)
    /\ c.path = "/" /\ c.secure /\ c.http_only
    /\ c.expires * TicksPerSec <= s.expires_at
    /\ s.expires_at - c.expires * TicksPerSec < TicksPerSec

\* the success response handed out carries the cookie of a committed session
AnsweredWithCookie ==
    (out.req.kind = "sign_in" /\ out.res.ok) =>
        /\ out.res.val.status = 200
        /\ \E s \in sessions : CookieOf(out.res.val.set_cookie, s)

Malformed(r) == ~is_valid_email(r.email) \/ Len(r.password) < 6

\* C10: a sign-up or sign-in request whose email fails the format check or
\* whose password is shorter than 6 returns BadRequest (400) in its first
\* step, before begin and before any repository call, with no write pending
\* and both tables unchanged; it never goes on to the storage calls.
C10_MalformedRejectedBeforeStorage ==
    [][/\ (out' # NoOut /\ out'.req.kind \in {"sign_up", "sign_in"}
            /\ Malformed(out'.req)) =>
              /\ ~out'.res.ok /\ out'.res.err.t = "BadRequest"
              /\ ErrorResponse(out'.res.err).status = 400
              /\ out'.trace = <<>> /\ out'.fault = NoFault
              /\ pc' = pc /\ pending' = pending
              /\ TablesUnchanged
       /\ \A p \in Procs :
              (pc'[p] # pc[p] /\ req'[p].kind \in {"sign_up", "sign_in"}) =>
                  ~Malformed(req'[p])]_vars

\* a sign-up with a 5-character password was rejected with the store populated
C10_Witness ==
    /\ out.req.kind = "sign_up"
    /\ is_valid_email(out.req.email) /\ Len(out.req.password) = 5
    /\ out.res = Err(BadRequest("Invalid Password Format"))
    /\ out.trace = <<>>
    /\ creds # {}

\* a sign-up or sign-in returned in this step after one of its storage calls
\* failed
StorageFailureAnswered ==
    /\ out' # NoOut /\ out'.req.kind \in {"sign_up", "sign_in"}
    /\ out'.fault # NoFault

\* each storage call of the request was made at most once
NotRetried(tr) == \A i, j \in 1..Len(tr) : tr[i] = tr[j] => i = j

\* C11: any storage failure during sign-up or sign-in (begin, the existence
\* check, the lookup, an insert, or commit) reaches the caller as
\* InternalServerError answered with status 500 and the fixed message
\* "Internal Server Error", never the driver's text; no call is retried and
\* the failed request leaves both tables unchanged; no storage failure ends
\* the request any other way.
C11_StorageFailureGeneric500 ==
    [][StorageFailureAnswered =>
           /\ ~out'.res.ok
           /\ out'.res.err.t = "InternalServerError"
           /\ ErrorResponse(out'.res.err) =
                  [status |-> 500, message |-> "Internal Server Error"]
           /\ ErrorResponse(out'.res.err).message # DriverText(out'.fault)
           /\ NotRetried(out'.trace)
           /\ TablesUnchanged]_vars

(***************************************************************************)
(* Properties of the repositories, over the calls of the single client of  *)
(* RepoSpec.  In the step that answers a call, out' holds the call and its  *)
(* result, the unprimed rows are those the call found and the primed ones   *)
(* those it left.                                                           *)
(***************************************************************************)
\* the step returns the result of a repository call
RepoAnswer == out' # NoOut /\ out'.req.kind = "repo" /\ out'.req.work # <<>>

\* the rows of the entity's table as the client's transaction sees them
RowsSeen(entity) ==
    IF entity = "credentials" THEN VisibleCreds(Client) ELSE VisibleSessions(Client)

\* the same rows after the step
RowsLeft(entity) ==
    IF entity = "credentials" THEN VisibleCreds(Client)' ELSE VisibleSessions(Client)'

\* the rows the key of the call answered selected before the call
Selected == Matching(RowsSeen(out'.req.work[1].entity), out'.req.work[1].key)

\* no row of the table is removed: every id is kept
KeepsRows(before, after) ==
    /\ Cardinality(after) >= Cardinality(before)
    /\ \A r \in before : \E s \in after : s.id = r.id

\* C12: delete(key) on an existing credential or session sets active to
\* false on the rows the key selects, returns such a row with active = false
\* and removes none; no step of any repository call makes the number of
\* credential or session rows decrease; and after the delete, get and
\* try_get with the same key and with the id of the returned row still
\* return the row, with active = false.
C12_DeleteIsSoft ==
    [][/\ KeepsRows(creds, creds') /\ KeepsRows(sessions, sessions')
       /\ KeepsRows(RowsSeen("credentials"), RowsLeft("credentials"))
            \/ pc'[Client] = "idle"
       /\ KeepsRows(RowsSeen("sessions"), RowsLeft("sessions"))
            \/ pc'[Client] = "idle"
       /\ (RepoAnswer /\ out'.req.work[1].op = "delete" /\ out'.fault = NoFault
            /\ Selected # {}) =>
              LET call == out'.req.work[1]
                  before == RowsSeen(call.entity)
                  after == RowsLeft(call.entity)
                  row == out'.res.val
              IN  /\ out'.res.ok
                  /\ ~row.active
                  /\ \E r \in Selected : row = Deactivate(r)
                  /\ after = {IF r \in Selected THEN Deactivate(r) ELSE r : r \in before}
                  /\ \A first \in Matching(after, call.key) :
                         /\ ~first.active
                         /\ get(backend, call.entity, first, NoFault) = Ok(first)
                         /\ try_get(backend, call.entity, first, NoFault) = Ok(first)
                  /\ Matching(after, ById(row.id)) = {row}
                  /\ get(backend, call.entity, row, NoFault) = Ok(row)]_vars

\* get by credential id returned a session that an earlier, committed delete
\* had deactivated
C12_Witness ==
    /\ out.req.kind = "repo" /\ out.req.work # <<>>
    /\ out.req.work[1].entity = "sessions" /\ out.req.work[1].op = "get"
    /\ out.req.work[1].key.by = "CredentialId"
    /\ out.res.ok /\ ~out.res.val.active
    /\ out.res.val \in sessions

\* C13: try_get(key) returns Ok(None) when no row matches the key and
\* Ok(Some(row)) with a matching row when one does; it returns an error only
\* when the query fails or a stored value of the matching row cannot be
\* decoded, never because the row is absent; it changes no row.  For both
\* key variants of both entities.
C13_TryGetOptional ==
    [][(RepoAnswer /\ out'.req.work[1].op = "try_get") =>
           /\ out'.fault = NoFault =>
                  /\ out'.res.ok
                  /\ Selected = {} <=> out'.res.val = NoRow
                  /\ Selected # {} => out'.res.val \in Selected
           /\ Selected = {} =>
                  \/ out'.res = Ok(NoRow)
                  \/ out'.fault = "Database" /\ ~out'.res.ok
           /\ ~out'.res.ok =>
                  /\ out'.fault \in StatementFaults
                  /\ out'.res.err.ty = "DatabaseError"
                  /\ out'.res.err.t \in {"QueryFailed", "ConnectionFailed", "Unknown"}
           /\ TablesUnchanged
           /\ RowsLeft("credentials") = RowsSeen("credentials")
           /\ RowsLeft("sessions") = RowsSeen("sessions")]_vars

\* try_get by credential id answered Ok(None) although the table holds a
\* session of another credential
C13_Witness ==
    /\ out.req.kind = "repo" /\ out.req.work # <<>>
    /\ out.req.work[1].entity = "sessions" /\ out.req.work[1].op = "try_get"
    /\ out.req.work[1].key.by = "CredentialId"
    /\ out.res = Ok(NoRow)
    /\ sessions # {}

\* exists(key) of the adapters answers as try_get(key) does: true exactly when
\* try_get finds a row, the error of try_get when that fails, and by sending
\* the query of try_get
AdapterExistsIsTryGet ==
    (RepoAnswer /\ out'.req.work[1].op = "exists") =>
        /\ out'.trace = <<"try_get">>
        /\ out'.fault = NoFault => out'.res = Ok(Selected # {})
        /\ \E first \in (IF Selected = {} THEN {NoRow} ELSE Selected) :
               LET found == try_get(backend, out'.req.work[1].entity, first, out'.fault)
               IN  out'.res = IF found.ok THEN Ok(found.val # NoRow) ELSE found
        /\ TablesUnchanged

\* the existence check of a sign-up was made in this step by task p
SignUpChecked(p) == pc[p] = "su_exists" /\ pc'[p] # "su_exists"

\* the answer try_get by the email of p's request would give
TryGetFinds(p) ==
    \E first \in Matching(VisibleCreds(p), ByEmail(req[p].email)) :
        try_get(backend, "credentials", first, NoFault).val # NoRow

C15_GetMissIsQueryFailed ==
    [][(RepoAnswer /\ out'.req.work[1].op = "get" /\ out'.fault = NoFault
         /\ Selected = {}) =>
           /\ ~out'.res.ok
           /\ out'.res.err.ty = "DatabaseError"
           /\ out'.res.err.t = "QueryFailed"
           /\ out'.res.err.t = DatabaseErrorFrom("Database").t
           /\ out'.res.err.t # "NotFound"
           /\ TablesUnchanged]_vars

\* a credential insert was answered in this step
CredentialInsertAnswered ==
    /\ RepoAnswer
    /\ out'.req.work[1].entity = "credentials" /\ out'.req.work[1].op = "insert"

\* the email of the insert answered was taken when it was called
InsertedEmailTaken ==
    \E c \in RowsSeen("credentials") : c.email = out'.req.work[1].input.email

\* C16: a credential insert whose email already exists or whose returned row
\* cannot be decoded fails with DatabaseError::QueryFailed or
\* DatabaseError::DatabaseInconsistence and with no other kind, and adds no
\* row; a successful insert returns the entity with the email and password
\* given, an id no row had, and active = true, and adds exactly that row.
C16_InsertOutcomes ==
    [][CredentialInsertAnswered =>
           /\ (InsertedEmailTaken \/ out'.fault = "Decode") =>
                  /\ ~out'.res.ok
                  /\ out'.res.err.ty = "DatabaseError"
                  /\ out'.res.err.t \in {"QueryFailed", "DatabaseInconsistence"}
           /\ ~out'.res.ok =>
                  /\ RowsLeft("credentials") = RowsSeen("credentials")
                  /\ TablesUnchanged
           /\ out'.res.ok =>
                  /\ out'.res.val.email = out'.req.work[1].input.email
                  /\ out'.res.val.password = out'.req.work[1].input.password
                  /\ out'.res.val.active
                  /\ \A c \in RowsSeen("credentials") : c.id # out'.res.val.id
                  /\ RowsLeft("credentials") =
                         RowsSeen("credentials") \cup {out'.res.val}]_vars

\* every session row of before is in after as it was, or with active turned
\* from true to false and nothing else changed
OnlyDeactivated(before, after) ==
    \A s \in before :
        \E t \in after :
            /\ t.id = s.id
            /\ t = s \/ (s.active /\ t = [s EXCEPT !.active = FALSE])

\* C17: update on the session repository, with any key and in any state, on
\* both backends, is a trap: it returns neither Ok nor an Err of the
\* repository, sends no statement's result back and changes no session row.
\* In every step a session row that exists keeps all its fields, except that
\* active may turn from true to false.
C17_SessionUpdateTraps ==
    [][/\ (RepoAnswer /\ out'.req.work[1].entity = "sessions"
            /\ out'.req.work[1].op = "update") =>
              /\ out'.res = Unreachable
              /\ ~out'.res.ok /\ out'.res.err.ty = "Panic"
              /\ pc'[Client] = "idle" /\ pending'[Client] = <<>>
              /\ TablesUnchanged
       /\ OnlyDeactivated(sessions, sessions')
       /\ OnlyDeactivated(RowsSeen("sessions"), RowsLeft("sessions"))
            \/ pc'[Client] = "idle"]_vars

\* update was called on the session repository for an active session, with
\* the key of its credential, and trapped
C17_Witness ==
    /\ out.req.kind = "repo" /\ out.req.work # <<>>
    /\ out.req.work[1].entity = "sessions" /\ out.req.work[1].op = "update"
    /\ out.res = Unreachable
    /\ \E s \in sessions :
           s.active /\ out.req.work[1].key = ByCredentialId(s.credential_id)

\* every credential row of before is in after with the id and email it had
KeepsIdAndEmail(before, after) ==
    \A c \in before : \E d \in after : d.id = c.id /\ d.email = c.email

\* C18: whatever sign-ups and insert, update and delete calls of the
\* credentials repository ran, and however the tasks making them were
\* interleaved, no two committed credential rows have the same email (nor the
\* same id), and every step leaves each committed credential the id and the
\* email it had.
C18_EmailStaysUnique ==
    [][/\ UniqueEmail'
       /\ \A c, d \in creds' : c.id = d.id => c = d
       /\ KeepsIdAndEmail(creds, creds')]_vars

\* both emails are registered, a committed row was changed by update, and a
\* task's insert of a taken email was refused while the other task had a
\* transaction with a write open
C18_Witness ==
    /\ \E c, d \in creds : c.email # d.email /\ c.password = PwB
    /\ out.req.kind = "repo" /\ out.req.work # <<>>
    /\ out.req.work[1].op = "insert" /\ ~out.res.ok
    /\ \E q \in Procs : pending[q] # <<>>

\* a timestamp at the precision the embedded engine keeps
AtMillis(t) == from_timestamp_millis(timestamp_millis(t))

\* the row of the embedded store that stands for a row of the production one
Embedded(entity, row) ==
    IF row = NoRow \/ entity = "credentials" THEN row
    ELSE [row EXCEPT !.created_at = AtMillis(@), !.expires_at = AtMillis(@)]

EmbeddedRows(entity, rows) == {Embedded(entity, r) : r \in rows}

ApplyRows(entity, rows, ws) ==
    IF entity = "credentials" THEN ApplyCreds(rows, ws) ELSE ApplySessions(rows, ws)

\* the production adapter's result pg and the embedded adapter's result sq
\* are the same outcome: both Ok with the same value up to the millisecond,
\* or both failing, with the same error unless it is a failure to decode
SameOutcome(call, f, pg, sq) ==
    /\ pg.ok = sq.ok
    /\ pg.ok => IF call.op = "exists" THEN pg.val = sq.val
                ELSE Embedded(call.entity, pg.val) = sq.val
    /\ ~pg.ok => f = "Decode" \/ pg.err = sq.err

\* C19: the production and the embedded adapter are observationally
\* equivalent.  Whatever call is made (insert, get, try_get, exists, update,
\* delete; both key variants; both entities) in whatever state a sequence of
\* calls reached, the call made on the production adapter and the same call
\* made on the embedded adapter over the same logical store both succeed or
\* both fail, return the same values up to millisecond precision of the
\* timestamps, and leave stores that are again the same logical store; the
\* embedded store holds timestamps of whole milliseconds only.
C19_AdaptersEquivalent ==
    [][/\ RepoAnswer =>
            LET call == out'.req.work[1]
                f == out'.fault
                rows == RowsSeen(call.entity)
                matching == Matching(rows, call.key)
                firsts == IF matching = {} THEN {NoRow} ELSE matching
                e_matching == EmbeddedRows(call.entity, matching)
            IN  /\ \E first \in firsts :
                       out'.wres = Method(backend, Client, call, first, MaxNow, f)
                /\ \A first \in firsts :
                       LET pg == Method("postgres", Client, call, first, MaxNow, f)
                           sq == Method("sqlite", Client, call,
                                        Embedded(call.entity, first), MaxNow, f)
                       IN  /\ SameOutcome(call, f, pg, sq)
                           /\ pg.ok =>
                                EmbeddedRows(call.entity,
                                    ApplyRows(call.entity, rows,
                                              Statement(call, matching, pg)))
                                  = ApplyRows(call.entity,
                                        EmbeddedRows(call.entity, rows),
                                        Statement(call, e_matching, sq))
       /\ backend' = "sqlite" =>
              \A s \in sessions' \cup VisibleSessions(Client)' :
                  Embedded("sessions", s) = s]_vars

\* a session whose timestamps are finer than a millisecond was read back
C19_Witness ==
    /\ out.req.kind = "repo" /\ out.req.work # <<>>
    /\ out.req.work[1].entity = "sessions" /\ out.req.work[1].op = "get"
    /\ out.res.ok
    /\ Embedded("sessions", out.res.val) # out.res.val

\* r is t cut to the millisecond
TruncatedToMillis(t, r) == r % TicksPerMs = 0 /\ r <= t /\ t < r + TicksPerMs

\* the session row with both timestamps d ticks later
Later(s, d) == [s EXCEPT !.created_at = @ + d, !.expires_at = @ + d]

\* canonical -> stored -> canonical, for a credential and for a session
CredentialRoundTrip(c) == TryFromSqliteCredentialsDAO(SqliteCredentialsDAO(c))
SessionRoundTrip(s) == TryFromSqliteSessionsDAO(SqliteSessionsDAO(s))

\* C20: in the embedded adapter a canonical credential converted to its
\* stored form and back is the same credential (id, email, password, active);
\* a canonical session converted to its stored form and back has the same id,
\* credential_id and active, and its created_at and expires_at cut to the
\* millisecond.  A session inserted through the embedded adapter is returned,
\* and read back by get, with the expires_at supplied, to the millisecond.
C20_EmbeddedRoundTrip ==
    [][/\ \A c \in creds' \cup VisibleCreds(Client)' :
              CredentialRoundTrip(c) = Ok(c)
       /\ \A s \in sessions' \cup VisibleSessions(Client)', d \in 0..(TicksPerMs - 1) :
              LET back == SessionRoundTrip(Later(s, d))
              IN  /\ back.ok
                  /\ back.val.id = s.id
                  /\ back.val.credential_id = s.credential_id
                  /\ back.val.active = s.active
                  /\ TruncatedToMillis(s.created_at + d, back.val.created_at)
                  /\ TruncatedToMillis(s.expires_at + d, back.val.expires_at)
       /\ (RepoAnswer /\ backend = "sqlite" /\ out'.res.ok
             /\ out'.req.work[1].entity = "sessions"
             /\ out'.req.work[1].op = "insert") =>
              LET supplied == out'.req.work[1].input.expires_at
                  row == out'.res.val
                  read == get("sqlite", "sessions", row, NoFault)
              IN  /\ TruncatedToMillis(supplied, row.expires_at)
                  /\ row \in VisibleSessions(Client)'
                  /\ read.ok
                  /\ TruncatedToMillis(supplied, read.val.expires_at)]_vars

\* on the embedded engine a session inserted with an expires_at finer than a
\* millisecond was read back by its id
C20_Witness ==
    /\ backend = "sqlite"
    /\ out.req.kind = "repo" /\ out.req.work # <<>>
    /\ out.req.work[1].entity = "sessions" /\ out.req.work[1].op = "get"
    /\ out.req.work[1].key.by = "Id"
    /\ out.res.ok
    /\ out.res.val.expires_at # CreateSessionsDAO([id |-> 1], MaxNow).expires_at
    /\ out.res.val.expires_at = AtMillis(CreateSessionsDAO([id |-> 1], MaxNow).expires_at)

\* what a successful sign-up leaves: one new committed row with the email,
\* active, holding a salted hash of the password and not the password; the
\* row is what the caller gets; nothing else is changed
SignUpCommitted ==
    /\ out'.res.ok
    /\ \E c \in creds' \ creds :
           /\ creds' = creds \cup {c}
           /\ \A d \in creds : d.id # c.id
           /\ c.email = out'.req.email
           /\ c.active = TRUE
           /\ c.password # out'.req.password
           /\ \E s \in Salts : c.password = hash_password(out'.req.password, s)
           /\ out'.res.val = [id |-> UuidToString(c.id), email |-> c.email,
                              password |-> c.password, active |-> TRUE]
    /\ sessions' = sessions

\* C21 as stated: a sign-up with a valid email that has no credential row
\* (its storage calls not failing, no sign-up for the same email overtaking
\* it) commits exactly one new row and returns it.
C21_Original ==
    [][(out' # NoOut /\ out'.req.kind = "sign_up" /\ out'.fault = NoFault
         /\ is_valid_email(out'.req.email) /\ ~Registered(out'.req.email)
         /\ ~out'.lost) => SignUpCommitted]_vars

\* C21: a sign-up with a valid email that has no credential row and with a
\* password of at least 6 characters (its storage calls not failing, no
\* sign-up for the same email overtaking it) commits exactly one new
\* credential row with that email, active, whose password field is the hash
\* of the presented password and not the plaintext, and returns that row's
\* id, email, hash and active = true; all other credential rows and all
\* session rows are unchanged.  Every sign-up that succeeds does so.
C21_SignUpCommitsOneRow ==
    [][/\ (out' # NoOut /\ out'.req.kind = "sign_up" /\ out'.fault = NoFault
            /\ is_valid_email(out'.req.email) /\ is_valid_password(out'.req.password)
            /\ ~Registered(out'.req.email) /\ ~out'.lost) => SignUpCommitted
       /\ (out' # NoOut /\ out'.req.kind = "sign_up" /\ out'.res.ok) =>
              SignUpCommitted]_vars

\* a sign-up added its row to a table that held another credential and a
\* session
C21_Witness ==
    /\ out.req.kind = "sign_up" /\ out.res.ok
    /\ \E c, d \in creds :
           /\ c.email = out.req.email /\ out.res.val.id = UuidToString(c.id)
           /\ d.email # c.email
    /\ sessions # {}

\* the hash h of password, just made, against the hashes stored before it:
\* it is not the password, no stored password field equals it, it accepts the
\* password as every stored hash of the same password still does, and it
\* accepts no other password
FreshlyHashed(password, h) ==
    /\ h # password
    /\ ParsesAsHash(h)
    /\ \A r \in AllCredRows : r.password # h
    /\ verify_password(password, h) = "true"
    /\ \A other \in Passwords \ {password} : verify_password(other, h) = "false"

\* C22: the hash sign-up stores never equals the plaintext; a plaintext
\* hashed twice gives two different hash strings, each call taking a fresh
\* salt; verify_password accepts the plaintext for both hashes and refuses
\* every other plaintext.
C22_SaltedHashes ==
    [][/\ \A p \in Procs :
              (pc[p] = "su_create" /\ pc'[p] = "su_commit") =>
                  FreshlyHashed(req[p].password, loc'[p].cred.password)
       /\ \A c \in creds' :
              ParsesAsHash(c.password) =>
                  /\ \A d \in creds' \ {c} : d.password # c.password
                  /\ \A pw \in Passwords : c.password # pw
                  /\ \E pw \in Passwords :
                         /\ verify_password(pw, c.password) = "true"
                         /\ \A other \in Passwords \ {pw} :
                                verify_password(other, c.password) = "false"]_vars

\* two sign-ups with the same password left two different hashes, each of
\* which accepts the password and refuses another
C22_Witness ==
    \E c, d \in creds :
        /\ c.password # d.password
        /\ ParsesAsHash(c.password) /\ ParsesAsHash(d.password)
        /\ verify_password(PwA, c.password) = "true"
        /\ verify_password(PwA, d.password) = "true"
        /\ verify_password(PwB, c.password) = "false"
        /\ verify_password(PwB, d.password) = "false"

\* the error type of the caller of the request's storage calls
CallerErrorType(r) ==
    IF r.kind \in {"work", "repo"} THEN "DatabaseError" ELSE "ServerError"

\* the one DatabaseError kind of the driver error f, as the caller gets it
Classified(r, f) == Err(FromDatabaseError(CallerErrorType(r), DatabaseErrorFrom(f)))

\* what the repository operation of a sign-up that failed returned to the
\* handler
SignUpRepositoryError ==
    IF Contains(out'.trace, "create") THEN CredentialsCreateError(backend, out'.fault)
    ELSE CredentialsExistsError(backend, out'.fault)

\* C23: a driver error met by an operation (a timeout of the pool at begin,
\* a failing statement, a failing commit) ends it at once with the one
\* DatabaseError kind the driver error is mapped to, converted to the
\* caller's error type: ConnectionNotAvailable for a pool timeout; neither
\* the transaction runner nor a repository operation returns an error of a
\* driver-specific type.
C23_DriverErrorsClassified ==
    [][(out' # NoOut /\ out'.fault # NoFault) =>
           /\ out'.res = Classified(out'.req, out'.fault)
           /\ out'.fault = "PoolTimedOut" =>
                  out'.res = Err(FromDatabaseError(CallerErrorType(out'.req),
                                     MkErr("DatabaseError", "ConnectionNotAvailable", "")))
           /\ (out'.wres # NotRun /\ ~out'.wres.ok) =>
                  out'.wres.err.ty \in {"DatabaseError", "ServerError"}
           /\ (out'.req.kind = "sign_up" /\ Len(out'.trace) > 1
                 /\ out'.fault \in QueryFaults) =>
                  SignUpRepositoryError.err.ty = "DatabaseError"]_vars

\* the storage calls of a request, in the order the handler makes them
CallsOf(kind) ==
    IF kind = "sign_up" THEN <<"begin", "exists", "create", "commit">>
    ELSE <<"begin", "try_get", "insert_session", "commit">>

\* tr is the beginning of the request's calls: one begin, then each call once
StartOf(tr, kind) ==
    /\ Len(tr) <= Len(CallsOf(kind))
    /\ \A i \in 1..Len(tr) : tr[i] = CallsOf(kind)[i]

PassesValidation(r) ==
    IF r.kind = "sign_up" THEN sign_up_validate(r.email, r.password).ok
    ELSE sign_in_validate(r.email, r.password).ok

\* C24: a sign-up or sign-in that passes validation begins exactly one
\* transaction (one that does not pass begins none); its repository calls
\* (sign-up: existence check, insert; sign-in: credential lookup, session
\* insert) are made once each, in that order, after that begin and before
\* its commit, their writes staying in the transaction until then; when a
\* call fails the request returns at once: nothing is begun or called again.
C24_OneTransactionPerRequest ==
    [][/\ \A p \in Procs :
              req'[p].kind \in {"sign_up", "sign_in"} =>
                  /\ PassesValidation(req'[p])
                  /\ trace'[p] # <<>> /\ StartOf(trace'[p], req'[p].kind)
                  /\ pc'[p] # pc[p] =>
                         /\ Len(trace'[p]) >= Len(trace[p]) + 1
                         /\ pc[p] # "idle" => Len(trace'[p]) = Len(trace[p]) + 1
                         /\ TablesUnchanged
       /\ (out' # NoOut /\ out'.req.kind \in {"sign_up", "sign_in"}) =>
              /\ PassesValidation(out'.req) <=> out'.trace # <<>>
              /\ StartOf(out'.trace, out'.req.kind)
              /\ NotRetried(out'.trace)
              /\ ~TablesUnchanged =>
                     out'.res.ok /\ out'.trace = CallsOf(out'.req.kind)
              /\ ~out'.res.ok => TablesUnchanged
              /\ \A p \in Procs :
                     req[p] = out'.req /\ pc'[p] # pc[p] =>
                         pc'[p] = "idle" /\ trace'[p] = <<>> /\ pending'[p] = <<>>]_vars

\* a sign-in whose session insert failed returned after its three calls
C24_Witness ==
    /\ out.req.kind = "sign_in" /\ out.fault \in QueryFaults
    /\ out.trace = <<"begin", "try_get", "insert_session">>
    /\ ~out.res.ok

\* the writes of the client's open transaction are deactivations of
\* committed credentials and nothing else
OnlyDeactivations ==
    /\ pending[Client] # <<>>
    /\ \A i \in DOMAIN pending[Client] :
           /\ pending[Client][i].op = "upd_cred"
           /\ \E c \in creds : c.active /\ pending[Client][i].row = Deactivate(c)

\* C25: delete on the credential repository, by id or by email, changes only
\* the active flag of the credential the key selects.  In the transaction
\* that made the call, and in the committed tables once it commits, every
\* session row, those of the deactivated credential included, is as it was
\* (active and every other field), and so is every other credential row.
C25_DeactivationFrame ==
    [][/\ (RepoAnswer /\ out'.req.work[1].entity = "credentials"
             /\ out'.req.work[1].op = "delete" /\ out'.res.ok) =>
              /\ RowsLeft("sessions") = RowsSeen("sessions")
              /\ sessions' = sessions
              /\ Cardinality(Selected) = 1
              /\ RowsLeft("credentials") =
                     (RowsSeen("credentials") \ Selected)
                         \cup {[r EXCEPT !.active = FALSE] : r \in Selected}
              /\ out'.res.val \in {[r EXCEPT !.active = FALSE] : r \in Selected}
       /\ (OnlyDeactivations /\ creds' # creds) =>
              /\ sessions' = sessions
              /\ \A c \in creds :
                     \/ c \in creds'
                     \/ /\ [c EXCEPT !.active = FALSE] \in creds'
                        /\ \E i \in DOMAIN pending[Client] :
                               pending[Client][i].row.id = c.id
              /\ Cardinality(creds') = Cardinality(creds)]_vars

\* a credential with an active session was deactivated by delete, and the
\* transaction still sees the session active
C25_Witness ==
    /\ out.req.kind = "repo" /\ out.req.work # <<>>
    /\ out.req.work[1].entity = "credentials" /\ out.req.work[1].op = "delete"
    /\ out.res.ok
    /\ \E s \in VisibleSessions(Client) :
           s.credential_id = out.res.val.id /\ s.active
    /\ \E c \in VisibleCreds(Client) : c.id # out.res.val.id /\ c.active

\* the columns of a stored session that may hold what cannot be converted
SessionColumns == {"id", "credential_id", "created_at", "expires_at"}

\* the stored session with the column holding text that is no uuid, or a
\* millisecond count outside the range of DateTime
Unconvertible(stored, column) ==
    CASE column = "id" -> [stored EXCEPT !.id = NotUuidText]
      [] column = "credential_id" -> [stored EXCEPT !.credential_id = NotUuidText]
      [] column = "created_at" -> [stored EXCEPT !.created_at = MaxMillis + 1]
      [] column = "expires_at" -> [stored EXCEPT !.expires_at = 0 - 1]

\* the result is a failure of kind Unknown or DatabaseInconsistence, and
\* holds no entity
FailsAsInconsistent(r) ==
    /\ ~r.ok /\ r.val = NoVal
    /\ r.err.ty = "DatabaseError"
    /\ r.err.t \in {"Unknown", "DatabaseInconsistence"}

\* the call answered had a stored row to convert: the row its key selected,
\* or the row its INSERT returned
ReadARow ==
    LET call == out'.req.work[1]
    IN  IF call.op # "insert" THEN Selected # {}
        ELSE call.entity = "credentials" => ~EmailTaken(Client, call.input.email)

\* C26: on the embedded adapter a call that reads a stored row it cannot
\* convert (insert's returned row, get, try_get, exists, update, delete)
\* fails with DatabaseError::Unknown or DatabaseInconsistence and returns no
\* entity (update on sessions traps before it reads anything, and returns
\* none either), leaving the tables as they were.  The conversions fail so
\* for an id or credential_id text that is no uuid and for a created_at or
\* expires_at millisecond count outside the range of DateTime.
C26_UnconvertibleRowFails ==
    [][/\ (RepoAnswer /\ backend = "sqlite" /\ out'.fault = "Decode" /\ ReadARow) =>
              /\ IF out'.req.work[1].entity = "sessions"
                      /\ out'.req.work[1].op = "update"
                 THEN out'.res = Unreachable
                 ELSE FailsAsInconsistent(out'.wres) /\ out'.res = out'.wres
              /\ out'.res.val = NoVal
              /\ TablesUnchanged
              /\ pending'[Client] = <<>>
       /\ \A c \in VisibleCreds(Client)' :
              FailsAsInconsistent(TryFromSqliteCredentialsDAO(
                  [SqliteCredentialsDAO(c) EXCEPT !.id = NotUuidText]))
       /\ \A s \in VisibleSessions(Client)', column \in SessionColumns :
              FailsAsInconsistent(TryFromSqliteSessionsDAO(
                  Unconvertible(SqliteSessionsDAO(s), column)))]_vars

\* on the embedded engine a get found a session whose stored id is no uuid
C26_Witness ==
    /\ backend = "sqlite"
    /\ out.req.kind = "repo" /\ out.req.work # <<>>
    /\ out.req.work[1].entity = "sessions" /\ out.req.work[1].op = "get"
    /\ out.fault = "Decode"
    /\ out.res = Err(Unknown("Could not convert id to uuid"))
    /\ Matching(sessions, out.req.work[1].key) # {}

\* the response an error is turned into
Answer(status, message) == [status |-> status, message |-> message]

\* C27: a sign-up or sign-in whose email fails the format check is answered
\* 400 "Invalid Email Format", whatever its password; with a well-formed
\* email, a password shorter than 6 is answered 400 "Invalid Password
\* Format" by sign-up and 400 "Password must be at least 6 characters long"
\* by sign-in; every Unauthorized is answered 401 "Unauthorized"; a request
\* with a well-formed email and a password of exactly 6 characters is never
\* answered 400 and goes on to its storage calls.
C27_ValidationMessages ==
    [][(out' # NoOut /\ out'.req.kind \in {"sign_up", "sign_in"}) =>
           LET r == out'.req
               answer == ErrorResponse(out'.res.err)
           IN  /\ ~is_valid_email(r.email) =>
                      /\ out'.res = Err(BadRequest("Invalid Email Format"))
                      /\ answer = Answer(400, "Invalid Email Format")
               /\ (is_valid_email(r.email) /\ Len(r.password) < 6) =>
                      /\ ~out'.res.ok /\ out'.res.err.t = "BadRequest"
                      /\ answer = Answer(400, IF r.kind = "sign_up"
                                              THEN "Invalid Password Format"
                                              ELSE "Password must be at least 6 characters long")
               /\ (~out'.res.ok /\ out'.res.err.t = "Unauthorized") =>
                      /\ out'.res = Err(Unauthorized)
                      /\ answer = Answer(401, "Unauthorized")
               /\ (is_valid_email(r.email) /\ Len(r.password) = 6) =>
                      /\ out'.trace # <<>>
                      /\ out'.res.ok \/ out'.res.err.t # "BadRequest"
               /\ (~out'.res.ok /\ out'.res.err.t = "BadRequest") =>
                      out'.trace = <<>> /\ TablesUnchanged]_vars

\* a sign-in with a malformed email and a short password was answered for
\* its email
C27_Witness ==
    /\ out.req.kind = "sign_in"
    /\ ~is_valid_email(out.req.email) /\ Len(out.req.password) < 6
    /\ ErrorResponse(out.res.err) = Answer(400, "Invalid Email Format")


(***************************************************************************)
(* C28: referential integrity of sessions.  In every committed state each   *)
(* session row's credential_id is the id of an existing credential row,     *)
(* after any sequence of sign-up, sign-in, update and delete: a sign-in     *)
(* inserts its session with the id of the credential it read in the same    *)
(* transaction, and no step removes a credential row or changes its id.     *)
(***************************************************************************)
RefersToCredential(s, cs) == \E c \in cs : c.id = s.credential_id

C28_SessionsReferToCredentials ==
    [][ /\ \A s \in sessions' : RefersToCredential(s, creds')
        /\ \A s \in VisibleSessions(Client)' :
               RefersToCredential(s, VisibleCreds(Client)')
        /\ {c.id : c \in creds} \subseteq {c.id : c \in creds'}
        /\ KeepsIdAndEmail(creds, creds')
        /\ (pc[Client] = "si_insert" /\ pc'[Client] = "si_commit") =>
               /\ loc[Client].cred \in VisibleCreds(Client)
               /\ \E w \in RowsOf(pending'[Client], "ins_sess") :
                      /\ w \notin AllSessRows
                      /\ w.credential_id = loc[Client].cred.id ]_vars

\* a committed session whose credential has since been updated and deactivated,
\* next to a second credential
C28_Witness ==
    /\ Cardinality(creds) = 2
    /\ \E s \in sessions : \E c \in creds :
           /\ c.id = s.credential_id
           /\ ~c.active
           /\ verify_password(PwA, c.password) # "true"


(***************************************************************************)
(* C29: each successful sign-in inserts one new session, with an id no      *)
(* existing session has, and leaves every earlier session as it was (still  *)
(* active, same expires_at); how many active sessions the credential        *)
(* already has plays no part, so their number is not limited; and no step   *)
(* of a sign-in changes a credential row.                                   *)
(***************************************************************************)
SessionIds(rows) == {s.id : s \in rows}

ActiveSessionsOf(c) == {s \in sessions : s.credential_id = c.id /\ s.active}

SignInAnswers == out' # NoOut /\ out'.req.kind = "sign_in"

C29_SignInAddsOneSession ==
    [][ /\ (SignInAnswers \/ pc'[Client] \in {"si_insert", "si_commit"}) =>
               /\ creds' = creds
               /\ VisibleCreds(Client)' = creds
        /\ (SignInAnswers /\ out'.res.ok) =>
               \E s \in sessions' \ sessions :
                   /\ sessions' = sessions \cup {s}
                   /\ s.id \notin SessionIds(sessions)
                   /\ s.active
                   /\ s.credential_id = loc[Client].cred.id
                   /\ s = InsertedBy(Client)
        /\ (SignInAnswers /\ ~out'.res.ok) => sessions' = sessions
        /\ (pc[Client] = "si_insert" /\ pc'[Client] = "si_commit") =>
               /\ sessions' = sessions
               /\ Len(pending'[Client]) = 1
               /\ pending'[Client][1].op = "ins_sess"
               /\ pending'[Client][1].row.id \notin SessionIds(sessions)
        /\ \A e \in ValidEmails :
               (out' = NoOut /\ pc'[Client] = "idle"
                    /\ ActiveAndVerifies(e, PwA)' /\ FreeSessIds' # {}) =>
                   (ENABLED (SignInStart(Client, e, PwA) /\ pc'[Client] = "si_insert"))'
        /\ (pc'[Client] = "si_insert" /\ FreeSessIds' # {}) =>
               (ENABLED (SignInInsert(Client, MaxNow) /\ pc'[Client] = "si_commit"))'
      ]_vars

\* a sign-in has just succeeded for a credential that already had an active
\* session: the credential now has two
C29_Witness ==
    /\ out # NoOut /\ out.req.kind = "sign_in" /\ out.res.ok
    /\ \E c \in creds :
           /\ c.email = out.req.email
           /\ Cardinality(ActiveSessionsOf(c)) >= 2
           /\ \A s, t \in ActiveSessionsOf(c) : s # t => s.id # t.id


(***************************************************************************)
(* C30: the key SessionsBy::CredentialId(c) does not identify one row.      *)
(* When several sessions refer to credential c, delete by that key sets     *)
(* active = false on every one of them and returns a single one of them;    *)
(* get and try_get by that key return one of them and change nothing; and   *)
(* which one is returned is not determined: each session of c can be the    *)
(* one returned.                                                            *)
(***************************************************************************)
ByCredentialIdAnswer(ops) ==
    /\ RepoAnswer
    /\ out'.req.work[1].entity = "sessions"
    /\ out'.req.work[1].op \in ops
    /\ out'.req.work[1].key.by = "CredentialId"
    /\ Selected # {}

\* the call can return the row (a delete returns it deactivated)
CanReturn(op, i, r) ==
    ENABLED (/\ RepoCall(Client, Call("sessions", op, ByCredentialId(i), NoVal),
                         MaxNow, NoFault)
             /\ out'.res = Ok(IF op = "delete" THEN Deactivate(r) ELSE r))

C30_CredentialIdKeyNotUnique ==
    [][ /\ ByCredentialIdAnswer({"delete"}) =>
               /\ out'.res.ok
               /\ \E r \in Selected : out'.res.val = Deactivate(r)
               /\ RowsLeft("sessions") =
                      {IF r \in Selected THEN Deactivate(r) ELSE r : r \in RowsSeen("sessions")}
               /\ \A r \in Matching(RowsLeft("sessions"), out'.req.work[1].key) :
                      ~r.active
               /\ Cardinality(Matching(RowsLeft("sessions"), out'.req.work[1].key))
                      = Cardinality(Selected)
        /\ ByCredentialIdAnswer({"get", "try_get"}) =>
               /\ out'.res.ok
               /\ out'.res.val \in Selected
               /\ RowsLeft("sessions") = RowsSeen("sessions")
        /\ (out' = NoOut /\ pc'[Client] = "repo" /\ Len(trace'[Client]) = 1) =>
               \A op \in {"get", "try_get", "delete"}, i \in 1..MaxCreds :
                   \A r \in Matching(VisibleSessions(Client)', ByCredentialId(i)) :
                       CanReturn(op, i, r)'
      ]_vars

\* a delete by credential id returned one session and left two sessions of the
\* credential, both active before it, deactivated in its transaction
C30_Witness ==
    /\ out.req.kind = "repo" /\ out.req.work # <<>>
    /\ out.req.work[1].entity = "sessions" /\ out.req.work[1].op = "delete"
    /\ out.req.work[1].key.by = "CredentialId"
    /\ out.res.ok
    /\ LET theirs(rows) == Matching(rows, out.req.work[1].key)
       IN  /\ Cardinality(theirs(sessions)) >= 2
           /\ \A s \in theirs(sessions) : s.active
           /\ Cardinality(theirs(VisibleSessions(Client))) >= 2
           /\ \A s \in theirs(VisibleSessions(Client)) : ~s.active
           /\ out.res.val \in theirs(VisibleSessions(Client))


(***************************************************************************)
(* C31: deactivation is reversible through update.  After delete(key) has   *)
(* set active = false, update(key, {password, active: true}) returns and    *)
(* leaves the row with active = true and the password given; once that is   *)
(* committed a sign-in with a password the new hash accepts is not refused  *)
(* and, no storage call failing, succeeds.  update overwrites both password *)
(* and active, and no step changes the id or the email of a credential.     *)
(***************************************************************************)
CredentialsAnswer(op) ==
    /\ RepoAnswer
    /\ out'.req.work[1].entity = "credentials"
    /\ out'.req.work[1].op = op
    /\ Selected # {}

\* the committed row of the email was inactive and is active after the step
Reactivated(email) ==
    /\ \E c \in creds : c.email = email /\ ~c.active
    /\ \E c \in creds' : c.email = email /\ c.active

C31_UpdateReactivates ==
    [][ /\ KeepsIdAndEmail(creds, creds')
        /\ CredentialsAnswer("delete") =>
               /\ out'.res.ok
               /\ ~out'.res.val.active
        /\ CredentialsAnswer("update") =>
               LET input == out'.req.work[1].input
                   row == out'.res.val
               IN  /\ out'.res.ok
                   /\ \E r \in Selected :
                          /\ row.id = r.id /\ row.email = r.email
                          /\ row.password = input.password
                          /\ row.active = input.active
                   /\ RowsLeft("credentials") =
                          {IF r \in Selected
                           THEN [r EXCEPT !.password = input.password,
                                          !.active = input.active]
                           ELSE r : r \in RowsSeen("credentials")}
        /\ \A e \in ValidEmails :
               /\ Reactivated(e) =>
                      \E pw \in {PwA, PwB} : ActiveAndVerifies(e, pw)'
               /\ \A pw \in {PwA, PwB} :
                      (out' = NoOut /\ pc'[Client] = "idle"
                           /\ ActiveAndVerifies(e, pw)') =>
                          (ENABLED (/\ SignInStart(Client, e, pw)
                                    /\ pc'[Client] = "si_insert"))'
        /\ (out' # NoOut /\ out'.req.kind = "sign_in" /\ out'.fault = NoFault
              /\ ActiveAndVerifies(out'.req.email, out'.req.password)) =>
               /\ out'.res.ok
               /\ out'.res.val.status = 200
               /\ \E s \in sessions' \ sessions : \E c \in creds :
                      c.email = out'.req.email /\ s.credential_id = c.id
      ]_vars

\* an update with active = true has answered for a credential that a committed
\* delete had deactivated: the row it returns is active and its hash accepts
\* the new password, which the committed one did not
C31_Witness ==
    /\ out.req.kind = "repo" /\ out.req.work # <<>>
    /\ out.req.work[1].entity = "credentials" /\ out.req.work[1].op = "update"
    /\ out.res.ok /\ out.res.val.active
    /\ verify_password(PwB, out.res.val.password) = "true"
    /\ \E c \in creds :
           /\ c.id = out.res.val.id /\ c.email = out.res.val.email
           /\ ~c.active
           /\ verify_password(PwA, c.password) = "true"
    /\ sessions # {}


(***************************************************************************)
(* C32: delete(key) and update(key, input) with a key that matches no row   *)
(* return an error, never Ok, and leave every credential and session row    *)
(* unchanged.  delete with a key that matches a row succeeds, the first     *)
(* time and again when the row is already inactive, and the repeated delete *)
(* leaves the store unchanged, in its transaction and at its commit.        *)
(***************************************************************************)
WritingAnswer ==
    RepoAnswer /\ out'.req.work[1].op \in {"delete", "update"}

\* every row the client's transaction sees is as it is committed
NothingToCommit ==
    VisibleCreds(Client) = creds /\ VisibleSessions(Client) = sessions

C32_MissingKeyAndRepeatedDelete ==
    [][ /\ (WritingAnswer /\ Selected = {}) =>
               /\ ~out'.res.ok
               /\ out'.res.err.ty \in {"DatabaseError", "Panic"}
               /\ out'.res.err.ty = "Panic" <=>
                      (out'.req.work[1].entity = "sessions"
                         /\ out'.req.work[1].op = "update")
               /\ creds' = creds /\ sessions' = sessions
               /\ pending'[Client] = <<>>
        /\ (WritingAnswer /\ out'.req.work[1].op = "delete" /\ Selected # {}
              /\ out'.fault = NoFault) =>
               /\ out'.res.ok
               /\ \E r \in Selected : out'.res.val = Deactivate(r)
               /\ (\A r \in Selected : ~r.active) =>
                      /\ out'.res.val \in Selected
                      /\ RowsLeft("credentials") = RowsSeen("credentials")
                      /\ RowsLeft("sessions") = RowsSeen("sessions")
        /\ (pc[Client] = "repo" /\ pc'[Client] = "idle" /\ NothingToCommit) =>
               creds' = creds /\ sessions' = sessions
      ]_vars

\* a second delete of the same credential has answered Ok: the row committed
\* was already inactive, and what the transaction would commit is the store
\* as it is
C32_Witness ==
    /\ out.req.kind = "repo" /\ out.req.work # <<>>
    /\ out.req.work[1].op = "delete" /\ out.req.work[1].entity = "credentials"
    /\ out.res.ok
    /\ out.res.val \in creds
    /\ ~out.res.val.active
    /\ pending[Client] # <<>>
    /\ VisibleCreds(Client) = creds


(***************************************************************************)
(* C33: a sign-in running concurrently with a transaction that deactivates *)
(* the same credential.                                                     *)
(***************************************************************************)
\* the commit of a sign-in adds the session to the committed table
CommitsSession(p, s) ==
    /\ pc[p] = "si_commit" /\ pc'[p] = "idle"
    /\ s \in sessions' \ sessions

\* C33 as stated: no session of a credential is committed after the
\* deactivation of that credential has committed.
C33_Original ==
    [][\A p \in Procs : \A s \in sessions' :
           CommitsSession(p, s) =>
               \A c \in creds : c.id = s.credential_id => c.active]_vars

\* C33: a sign-in goes on to insert a session only when it read the credential
\* as a committed, active row, that is before any deactivation of it
\* committed; a sign-in whose lookup comes after the deactivation committed is
\* refused with Unauthorized and commits no session.  The session a sign-in
\* commits is of the credential it read, so the sign-in is ordered before the
\* deactivation by what it read, whichever of the two commits first.
C33_SignInReadsBeforeDeactivation ==
    [][\A p \in Procs :
         /\ WentOn(p, "sign_in") =>
                /\ pc'[p] = "si_insert"
                /\ loc'[p].cred \in creds
                /\ loc'[p].cred.active
                /\ loc'[p].cred.email = req'[p].email
         /\ (ReturnedAtOnce("sign_in") /\ out'.fault = NoFault
               /\ ~Malformed(out'.req) /\ Deactivated(out'.req.email)) =>
                /\ out'.res = Err(Unauthorized)
                /\ sessions' = sessions
         /\ \A s \in sessions' :
                CommitsSession(p, s) =>
                    /\ s.credential_id = loc[p].cred.id
                    /\ loc[p].cred.active
                    /\ \E c \in creds :
                           c.id = loc[p].cred.id /\ c.email = loc[p].cred.email]_vars

\* a sign-in has committed a session of a credential whose deactivation had
\* committed while the sign-in was between its lookup and its commit
C33_Witness ==
    /\ out.req.kind = "sign_in" /\ out.res.ok
    /\ \E c \in creds :
           /\ c.email = out.req.email
           /\ ~c.active
           /\ \E s \in sessions : s.credential_id = c.id

=============================================================================
